---- MODULE Spec2Model ----
(***************************************************************************)
(* A model of the runtime discovery code of swift-testing:                 *)
(*                                                                         *)
(*   - the self-relative pointers of the Swift ABI (SWTRelativePointer,    *)
(*     SWTRelativePointerIntPair), SpecPtr;                                *)
(*   - the mapping of an ELF image from disk (map, isFileIDConsistent),    *)
(*     SpecMap;                                                            *)
(*   - the enumeration of type metadata records                            *)
(*     (swt_enumerateTypesWithNamesContaining over                         *)
(*     enumerateTypeMetadataSections), in the Sources/_TestingInternals    *)
(*     and the Sources/TestingInternals versions, SpecWalk.                *)
(*                                                                         *)
(* The three parts share no state: each specification moves its own        *)
(* variables and leaves the others at their idle values.                   *)
(***************************************************************************)
EXTENDS Integers, Sequences, FiniteSets, TLC

VARIABLES
  \* ---- SpecPtr: one evaluation of SWTRelativePointer<T, maskValue>::get()
  ptrPc,        \* "idle" | "ready" | "done"
  ptrBuild,     \* the build: [bits |-> pointer width, ptrauth |-> BOOLEAN]
  ptrThis,      \* the address the relative pointer is stored at (this)
  ptrOffset,    \* the stored int32_t _offset
  ptrMask,      \* the template argument maskValue
  ptrIsFn,      \* std::is_function_v<T>
  ptrResult,    \* what get() returned (0 is nullptr)
  \* ---- SpecMap: one call of map(path, &outSize)
  mapPc,        \* "idle" | "open" | "fstat" | "check" | "mmap" | "done"
  mapImpl,      \* "ELF::map" (Sources/TestingInternals) | "map" (Sources/_ImageryInternals)
  mapSecurity,  \* whether the build compiles the consistency check in
  mapPath,      \* the path argument
  mapSt,        \* what fstat() filled in: [dev, ino, size], NoStat before
  procMaps,     \* /proc/self/maps as isFileIDConsistent found it, NoFile before
  mapFileOK,    \* bool fileOK: what isFileIDConsistent returned (FALSE before)
  mapTrace,     \* the system calls made so far, in order
  mapResult,    \* [addr |-> NULL or the mapping, outSize |-> *outSize]
  \* ---- SpecWalk: one call of swt_enumerateTypesWithNamesContaining
  wPc,          \* "idle" | "sections" | "records" | "done" | "crashed"
  wImpl,        \* "_TestingInternals" | "TestingInternals"
  wPlatform,    \* which enumerateTypeMetadataSections the build compiled
  wSub,         \* nameSubstring
  wImages,      \* how many images the loader (or the snapshot) yields
  wIdx,         \* the image the enumeration is at (0: before the first)
  wSection,     \* the section handed to the body: [imageAddress, start, size]
  wIt,          \* the address of the record the walk is at
  wStop,        \* the bool the visitor's stop argument points to
  wVisited,     \* the values passed to the visitor for this section, in order
  wExpected,    \* history: the values of the qualifying records of this
                \* section's table examined so far, in table order
  wLast,        \* history: the record examined last and what was done with it
  wStopImg,     \* history: the image in whose section the visitor set stop (0: none)
  wLastImg,     \* history: the image of the visitor's latest invocation (0: none)
  \* ---- SpecFind: one call of sml_findSection (ELF)
  fPc,          \* "idle" | "headers" | "map" | "strtab" | "sections" | "done"
  fEhdr,        \* the loaded ELF header: [e_shoff, e_shstrndx, e_shnum]
  fFile,        \* the image's file: [strtabType, sections, size]
  fName,        \* sectionName
  fIdx,         \* the loop variable i
  fMapped,      \* ehdrMapped and ehdrMappedSize: [addr, size]
  fCalls,       \* the mmap and munmap calls made so far, in order
  fReturn,      \* "none" | "true" | "false": what the call returned
  fOut,         \* *outSection: [set, start, size]
  fOOB,         \* history: the call has read outside the mapped copy
  \* ---- SpecCoff: one PE/COFF section lookup
  cPc,          \* "idle" | "dos" | "nt" | "sections" | "done"
  cImpl,        \* "sml_findSection" (_ImageryInternals) | "findSection" (_TestingInternals)
  cModule,      \* the module: [e_magic, e_lfanew, Signature, sections]
  cName,        \* sectionName
  cIdx,         \* the loop variable i
  cWalked,      \* history: how many section headers were read
  cResult,      \* [found, start, size]
  \* ---- SpecReg: the image registry (Mach-O), an enumerating thread and a loader
  rImpl,        \* "getSectionBounds" | "getMachHeaders" | "sml_enumerateImages"
  rLoaded,      \* the images dyld has loaded so far: the kind of each, or "unloaded"
  rList,        \* the registry's list: [image, by], in the order they were added
  rLock,        \* who holds the lock: "free" | "enumeration" | "callback E" | "callback L"
  ePc,          \* the enumerating thread: "start" | "idle" | "lock" | "copy" | "unlock"
                \* | "loop" | "dladdr" | "visitor" | "add lock" | "add push" | "end"
                \* | "remove lock" | "remove erase"
  eCalls,       \* how many enumeration calls have returned
  eSnap,        \* the list the call iterates: its copy, or the registry's own
  eIdx,         \* how many elements of the list the loop has taken
  eVisited,     \* history: the images passed to the visitor by this call
  eAdd,         \* the image the callback on the visitor's thread is for (0: none)
  lPc,          \* the loader thread: "idle" | "add lock" | "add push" | "remove lock"
                \* | "remove erase"
  lAdd,         \* the image the callback on the loader thread is for (0: none)
  eStop,        \* the visitor has set *stop in this call
  ePrev,        \* history: the snapshot of the previous call
  \* ---- SpecEnum: the images of an ELF process are enumerated
  nPc,          \* "idle" | "image" | "dladdr" | "map" | "strtab" | "sections" | "body" | "done"
  nImpl,        \* "ELF::enumerateSections" (TestingInternals) | "sml_enumerateImages"
  nImages,      \* what dl_iterate_phdr yields: a sequence of images
  nIdx,         \* the image the enumeration is at (0: before the first)
  nSecIdx,      \* the loop variable i of ELF::enumerateSections
  nVisits,      \* the images for which the visitor was invoked, in order
  nCalls,       \* the mmap and munmap calls of ELF::enumerateSections: [call, image]
  \* ---- SpecDecode: one call of SWTTypeMetadataRecord::getContextDescriptor
  dPc,          \* "idle" | "ready" | "done"
  dThis,        \* the address of the record
  dRec,         \* the record and what its pointers lead to
  dResult,      \* [addr, obj, loads]: the descriptor returned
  \* ---- SpecMachO: one call of sml_findSection (Mach-O)
  mPc,          \* "idle" | "call" | "done"
  mName,        \* sectionName, its characters
  mImage,       \* the image: what getsectiondata gives for a segment and section
  mQuery,       \* the calls of getsectiondata: [segment, section]
  mOut,         \* *outSection: [set, start, size]
  mReturn,      \* "none" | "true" | "false"
  \* ---- SpecOnce: threads make their first call to a registry function
  oImpl,        \* the function called, one of RegImpls
  oPc,          \* per thread: "call" | "once" | "block" | "hooks" | "wait" | "use" | "done"
  oOnce,        \* the dispatch_once_t predicate: "0" | "running" | "done"
  oList,        \* the static list pointer: "null" | "list"
  oAllocs,      \* how many lists were allocated
  oHooks,       \* how often each loader hook was registered: [add, remove]
  oReadNull,    \* history: a thread has read the list pointer while it was null
  \* ---- SpecRemove: the remove-image callback of the Mach-O sml_enumerateImages
  vPc,          \* "idle" | "call" | "done"
  vList,        \* *machHeaders before the callback
  vX,           \* the image being removed
  vResult,      \* [fault, list]: the callback faulted, or *machHeaders after it
  \* ---- SpecWin: enumerateTypeMetadataSections on Windows
  uPc,          \* "idle" | "modules" | "find" | "visit" | "done"
  uModules,     \* the modules of the process: for each, the module as findSection reads it
  uEnum,        \* EnumProcessModules: [ok, count] (count: byteCountNeeded / sizeof(HMODULE))
  uIdx,         \* the loop variable of the loop under way
  uBounds,      \* sectionBounds: the modules whose section was found
  uTrace        \* the calls so far: [call, module] with call "findSection" | "body"

ptrVars == <<ptrPc, ptrBuild, ptrThis, ptrOffset, ptrMask, ptrIsFn, ptrResult>>
mapVars == <<mapPc, mapImpl, mapSecurity, mapPath, mapSt, procMaps, mapFileOK,
             mapTrace, mapResult>>

walkVars == <<wPc, wImpl, wPlatform, wSub, wImages, wIdx, wSection, wIt, wStop,
              wVisited, wExpected, wLast, wStopImg, wLastImg>>

findVars == <<fPc, fEhdr, fFile, fName, fIdx, fMapped, fCalls, fReturn, fOut, fOOB>>
coffVars == <<cPc, cImpl, cModule, cName, cIdx, cWalked, cResult>>
regVars == <<rImpl, rLoaded, rList, rLock, ePc, eCalls, eSnap, eIdx, eVisited, eAdd,
             lPc, lAdd, eStop, ePrev>>
enumVars == <<nPc, nImpl, nImages, nIdx, nSecIdx, nVisits, nCalls>>
decVars == <<dPc, dThis, dRec, dResult>>
machoVars == <<mPc, mName, mImage, mQuery, mOut, mReturn>>
onceVars == <<oImpl, oPc, oOnce, oList, oAllocs, oHooks, oReadNull>>
removeVars == <<vPc, vList, vX, vResult>>
winVars == <<uPc, uModules, uEnum, uIdx, uBounds, uTrace>>

\* The single functions and the Windows enumeration.
moreVars == <<machoVars, onceVars, removeVars, winVars>>

\* The parts about images and sections.
imageVars == <<findVars, coffVars, regVars, enumVars, decVars, moreVars>>

vars == <<ptrVars, mapVars, walkVars, imageVars>>

NULL == 0

(***************************************************************************)
(* Machine integers.  int32_t is modelled OffsetBits wide; a pointer is    *)
(* OffsetBits wide on an ILP32 build and OffsetBits + HighBits wide on an  *)
(* LP64 build, so that sign extension and wraparound both happen.          *)
(***************************************************************************)
OffsetBits == 4
HighBits == 2

Pow2(n) == 2 ^ n

\* The two's complement bit pattern of x in `bits` bits.
ToUnsigned(x, bits) == x % Pow2(bits)

\* The signed value of the `bits`-bit pattern u.
ToSigned(u, bits) == IF u >= Pow2(bits - 1) THEN u - Pow2(bits) ELSE u

RECURSIVE BitAndNat(_, _)
BitAndNat(a, b) ==
  IF a = 0 \/ b = 0 THEN 0
  ELSE (a % 2) * (b % 2) + 2 * BitAndNat(a \div 2, b \div 2)

\* int32_t & int32_t
And32(a, b) ==
  ToSigned(BitAndNat(ToUnsigned(a, OffsetBits), ToUnsigned(b, OffsetBits)), OffsetBits)

\* ~int32_t
Not32(a) == -a - 1

Int32 == (-Pow2(OffsetBits - 1)) .. (Pow2(OffsetBits - 1) - 1)

(***************************************************************************)
(* Pointer authentication (arm64e).  The signature lives in the bits of a  *)
(* pointer above AddressBits; ptrauth_strip clears it and                  *)
(* ptrauth_sign_unauthenticated puts the signature of the key and          *)
(* discriminator there.  The signature is a keyed hash the model does not  *)
(* know: the action draws it.                                              *)
(***************************************************************************)
PtrBitsILP32 == OffsetBits
PtrBitsLP64 == OffsetBits + HighBits
AddressBits == OffsetBits + 1
Signatures == 0 .. (Pow2(PtrBitsLP64 - AddressBits) - 1)

ptrauth_strip(p) == p % Pow2(AddressBits)
ptrauth_sign_unauthenticated(p, sig) == p + sig * Pow2(AddressBits)

Builds ==
  { [bits |-> PtrBitsILP32, ptrauth |-> FALSE],
    [bits |-> PtrBitsLP64, ptrauth |-> FALSE],
    [bits |-> PtrBitsLP64, ptrauth |-> TRUE] }

(***************************************************************************)
(* SWTRelativePointer<T, maskValue>                                        *)
(***************************************************************************)
getRawValue(offset) == offset

\* A mutant of get: the offset is zero-extended to the pointer width.
get_zeroExtended(this, offset, maskValue, build, isFunction, sig) ==
  LET maskedOffset == And32(getRawValue(offset), Not32(maskValue)) IN
  IF maskedOffset = 0 THEN NULL
  ELSE LET off == ToUnsigned(maskedOffset, OffsetBits)
           result == (this + off) % Pow2(build.bits)
       IN IF build.ptrauth /\ isFunction /\ result # NULL
            THEN ptrauth_sign_unauthenticated(ptrauth_strip(result), sig)
            ELSE result

\* A mutant of get: the reserved low bits are not masked off.
get_unmasked(this, offset, maskValue, build, isFunction, sig) ==
  LET maskedOffset == getRawValue(offset) IN
  IF maskedOffset = 0 THEN NULL
  ELSE LET off == ToUnsigned(maskedOffset, build.bits)
           result == (this + off) % Pow2(build.bits)
       IN IF build.ptrauth /\ isFunction /\ result # NULL
            THEN ptrauth_sign_unauthenticated(ptrauth_strip(result), sig)
            ELSE result

\* const T *get() const&: `this` is the address of the pointer itself.
get(this, offset, maskValue, build, isFunction, sig) ==
  LET maskedOffset == And32(getRawValue(offset), Not32(maskValue)) IN
  IF maskedOffset = 0 THEN NULL
  ELSE \* static_cast<uintptr_t>(static_cast<intptr_t>(maskedOffset))
       LET off == ToUnsigned(maskedOffset, build.bits)
           result == (this + off) % Pow2(build.bits)
       IN IF build.ptrauth /\ isFunction /\ result # NULL
            THEN ptrauth_sign_unauthenticated(ptrauth_strip(result), sig)
            ELSE result

\* SWTRelativePointerIntPair::getInt
getInt(offset, maskValue) == And32(getRawValue(offset), maskValue)

\* The maskValue of SWTRelativePointer<T> and of SWTRelativePointerIntPair.
MaskValues == {0, 3}

\* Where a relative pointer can be stored: any non-null address; on a build
\* with pointer authentication a data address carries no signature.
ThisAddresses(build) ==
  1 .. (Pow2(IF build.ptrauth THEN AddressBits ELSE build.bits) - 1)

PtrIdle ==
  /\ ptrPc = "idle"
  /\ ptrBuild = [bits |-> PtrBitsILP32, ptrauth |-> FALSE]
  /\ ptrThis = 0
  /\ ptrOffset = 0
  /\ ptrMask = 0
  /\ ptrIsFn = FALSE
  /\ ptrResult = NULL

PtrInit ==
  /\ ptrPc = "ready"
  /\ ptrBuild \in Builds
  /\ ptrThis \in ThisAddresses(ptrBuild)
  /\ ptrOffset \in Int32
  /\ ptrMask \in MaskValues
  /\ ptrIsFn \in BOOLEAN
  /\ ptrResult = NULL

\* A caller evaluates get() on the stored pointer.
Resolve ==
  /\ ptrPc = "ready"
  /\ \E sig \in Signatures :
       ptrResult' = get(ptrThis, ptrOffset, ptrMask, ptrBuild, ptrIsFn, sig)
  /\ ptrPc' = "done"
  /\ UNCHANGED <<ptrBuild, ptrThis, ptrOffset, ptrMask, ptrIsFn>>
  /\ UNCHANGED <<mapVars, walkVars, imageVars>>

(***************************************************************************)
(* /proc/self/maps.  A line of the file is one mapping: the device of the  *)
(* mapped file (the kernel prints major and minor in hexadecimal, two      *)
(* digits at least), its inode (decimal) and its path; an anonymous        *)
(* mapping has an empty path.  A line that is not well formed lacks the    *)
(* fields the format expects.                                              *)
(***************************************************************************)
MaxLines == 2

Paths == {"/lib/a.so", "/lib/b.so"}
Anonymous == ""
\* What %2048[^\n] reads when it is handed a whole mapping line.
WholeLine == "<the next line of the file>"

LineDevices == { [major |-> 8, minor |-> 1], [major |-> 16, minor |-> 1] }
StatDevices == { [major |-> 8, minor |-> 1], [major |-> 10, minor |-> 1] }
Inodes == {1, 2}
FileSizes == {96}

MapsLines ==
  [dev : LineDevices, ino : Inodes, name : Paths, wellFormed : {TRUE}]
    \cup { [dev |-> [major |-> 0, minor |-> 0], ino |-> 0, name |-> Anonymous,
            wellFormed |-> TRUE],
           [dev |-> [major |-> 8, minor |-> 1], ino |-> 1, name |-> "/lib/a.so",
            wellFormed |-> FALSE] }

SeqsUpTo(S, n) == UNION { [1 .. k -> S] : k \in 0 .. n }

\* errorAt = k: the stream reports an I/O error on the k-th read (0: never;
\* Len(lines) + 1: while the end of the file is looked for).
ProcMapsFiles ==
  { [openable |-> FALSE, lines |-> <<>>, errorAt |-> 0] }
    \cup UNION { { [openable |-> TRUE, lines |-> ls, errorAt |-> e] :
                     e \in 0 .. (Len(ls) + 1) } :
                 ls \in SeqsUpTo(MapsLines, MaxLines) }

NoFile == [openable |-> FALSE, lines |-> <<>>, errorAt |-> 0]
NoStat == [dev |-> 0, ino |-> 0, size |-> 0]

\* makedev(3)
makedev(major, minor) == major * 256 + minor

\* The text of printf("%02x", n), as digit values.
RECURSIVE HexText(_)
HexText(n) == IF n < 16 THEN <<0, n>>
              ELSE IF n < 256 THEN <<n \div 16, n % 16>>
              ELSE HexText(n \div 16) \o <<n % 16>>

\* %llu on a text: the leading decimal digits are converted; [ok] is whether
\* there was one, [rest] is what follows them.
RECURSIVE ScanDecimal(_, _, _)
ScanDecimal(text, acc, any) ==
  IF text # <<>> /\ Head(text) < 10
    THEN ScanDecimal(Tail(text), acc * 10 + Head(text), TRUE)
    ELSE [ok |-> any, value |-> acc, rest |-> text]

(***************************************************************************)
(* One call of                                                             *)
(*   fscanf(maps, "%*llx-%*llx %*4c %*llx %llu:%llu %llu %2048[^\n]\n", *)
(*          &devMajor, &devMinor, &ino, &mapPath[0])                       *)
(* with the stream before line i.  A blank in the format skips white       *)
(* space, line breaks included: after the inode of an anonymous mapping    *)
(* the scan set reads the whole next line as the path.  [next] is the line *)
(* the stream is before afterwards.                                        *)
(***************************************************************************)
fscanf(maps, i) ==
  LET lines == maps.lines
      fail(n) == [count |-> n, devMajor |-> 0, devMinor |-> 0, ino |-> 0,
                  mapPath |-> Anonymous, next |-> i]
  IN
  IF i > Len(lines) \/ maps.errorAt = i THEN fail(-1)      \* EOF
  ELSE
    LET line == lines[i]
        major == ScanDecimal(HexText(line.dev.major), 0, FALSE)
        minor == ScanDecimal(HexText(line.dev.minor), 0, FALSE)
    IN
    IF ~line.wellFormed THEN fail(0)
    ELSE IF ~major.ok THEN fail(0)
    ELSE IF major.rest # <<>> THEN fail(1)                 \* ':' does not match
    ELSE IF ~minor.ok THEN fail(1)
    ELSE IF minor.rest # <<>> THEN fail(2)                 \* the inode does not convert
    ELSE IF line.name # Anonymous
      THEN [count |-> 4, devMajor |-> major.value, devMinor |-> minor.value,
            ino |-> line.ino, mapPath |-> line.name, next |-> i + 1]
    ELSE IF i + 1 > Len(lines) \/ maps.errorAt = i + 1
      THEN [count |-> 3, devMajor |-> major.value, devMinor |-> minor.value,
            ino |-> line.ino, mapPath |-> Anonymous, next |-> i + 1]
    ELSE [count |-> 4, devMajor |-> major.value, devMinor |-> minor.value,
          ino |-> line.ino, mapPath |-> WholeLine, next |-> i + 2]

\* feof(maps) || ferror(maps) with the stream before line i, after a read.
AtEndOrError(maps, i) == i > Len(maps.lines) \/ maps.errorAt = i

\* The while loop of isFileIDConsistent, the stream before line i.
RECURSIVE ScanMaps(_, _, _, _)
ScanMaps(path, st, maps, i) ==
  LET r == fscanf(maps, i) IN
  IF r.count < 4 THEN FALSE
  ELSE IF r.mapPath = path
          /\ (makedev(r.devMajor, r.devMinor) # st.dev \/ r.ino # st.ino)
    THEN FALSE
  ELSE IF AtEndOrError(maps, r.next)
    THEN ~(maps.errorAt = r.next)                          \* if (ferror(maps))
  ELSE ScanMaps(path, st, maps, r.next)

isFileIDConsistent(path, st, maps) ==
  IF ~maps.openable THEN FALSE
  ELSE ScanMaps(path, st, maps, 1)

(***************************************************************************)
(* map(path, outSize), both versions.  ELF::map closes the descriptor by   *)
(* hand on each path; map of _ImageryInternals defers the close to the     *)
(* return, and checks the file only when SML_ELF_SECURITY_ENABLED is set.  *)
(***************************************************************************)
MapImpls == {"ELF::map", "map"}
\* A non-null address: what a successful mmap returns.
Mapping == NULL + 1
NoResult == [addr |-> NULL, outSize |-> 0]

MapIdle ==
  /\ mapPc = "idle"
  /\ mapImpl = "map"
  /\ mapSecurity = FALSE
  /\ mapPath = "/lib/a.so"
  /\ mapSt = NoStat
  /\ procMaps = NoFile
  /\ mapFileOK = FALSE
  /\ mapTrace = <<>>
  /\ mapResult = NoResult

MapInit ==
  /\ mapPc = "open"
  /\ mapImpl \in MapImpls
  /\ mapSecurity \in (IF mapImpl = "map" THEN BOOLEAN ELSE {TRUE})
  /\ mapPath \in Paths
  /\ mapSt = NoStat
  /\ procMaps = NoFile
  /\ mapFileOK = FALSE
  /\ mapTrace = <<>>
  /\ mapResult = NoResult

\* A mutant of MapFail: the descriptor is left open.
MapFail_noClose(calls) ==
  /\ mapTrace' = mapTrace \o calls
  /\ mapResult' = NoResult
  /\ mapPc' = "done"

\* return nullptr, the descriptor closed on the way out.
MapFail(calls) ==
  /\ mapTrace' = mapTrace \o calls \o <<"close">>
  /\ mapResult' = NoResult
  /\ mapPc' = "done"

\* int fd = open(path, O_RDONLY);
MapOpen ==
  /\ mapPc = "open"
  /\ \E ok \in BOOLEAN :
       /\ mapTrace' = mapTrace \o <<"open">>
       /\ mapPc' = IF ok THEN "fstat" ELSE "done"
  /\ UNCHANGED <<mapImpl, mapSecurity, mapPath, mapSt, procMaps, mapFileOK, mapResult>>
  /\ UNCHANGED <<ptrVars, walkVars, imageVars>>

\* if (0 != fstat(fd, &st))
MapFstat ==
  /\ mapPc = "fstat"
  /\ \/ /\ MapFail(<<"fstat">>)
        /\ UNCHANGED mapSt
     \/ \E dev \in StatDevices, ino \in Inodes, size \in FileSizes :
          /\ mapSt' = [dev |-> makedev(dev.major, dev.minor), ino |-> ino, size |-> size]
          /\ mapTrace' = mapTrace \o <<"fstat">>
          /\ mapPc' = IF mapSecurity THEN "check" ELSE "mmap"
          /\ UNCHANGED mapResult
  /\ UNCHANGED <<mapImpl, mapSecurity, mapPath, procMaps, mapFileOK>>
  /\ UNCHANGED <<ptrVars, walkVars, imageVars>>

\* bool fileOK = isFileIDConsistent(path, st);
MapCheck ==
  /\ mapPc = "check"
  /\ \E maps \in ProcMapsFiles :
       LET fileOK == isFileIDConsistent(mapPath, mapSt, maps) IN
       /\ procMaps' = maps
       /\ mapFileOK' = fileOK
       /\ IF fileOK
            THEN /\ mapTrace' = mapTrace \o <<"isFileIDConsistent">>
                 /\ mapPc' = "mmap"
                 /\ UNCHANGED mapResult
            ELSE MapFail(<<"isFileIDConsistent">>)
  /\ UNCHANGED <<mapImpl, mapSecurity, mapPath, mapSt>>
  /\ UNCHANGED <<ptrVars, walkVars, imageVars>>

\* void *result = mmap(nullptr, st.st_size, PROT_READ, MAP_PRIVATE, fd, 0);
MapMmap ==
  /\ mapPc = "mmap"
  /\ \/ MapFail(<<"mmap">>)
     \/ /\ mapTrace' = mapTrace \o <<"mmap", "close">>
        /\ mapResult' = [addr |-> Mapping, outSize |-> mapSt.size]
        /\ mapPc' = "done"
  /\ UNCHANGED <<mapImpl, mapSecurity, mapPath, mapSt, procMaps, mapFileOK>>
  /\ UNCHANGED <<ptrVars, walkVars, imageVars>>


(***************************************************************************)
(* Type metadata records.  A section is a table of SWTTypeMetadataRecord,  *)
(* each one relative pointer with two low bits of tag; a record leads,     *)
(* directly or through one more pointer, to a SWTTypeContextDescriptor.    *)
(* What the memory holds is drawn when the walk reads it: a record, the    *)
(* pointer an indirect record leads to, and the descriptor.                *)
(***************************************************************************)
MaxRecords == 2
MaxImages == 2
MaxOverrun == 1

\* sizeof(SWTTypeMetadataRecord)
RecordStride == 4

\* The walk runs on a build without pointer authentication whose pointers
\* are wide enough for the addresses below.
WalkBuild == [bits |-> 4 * OffsetBits, ptrauth |-> FALSE]

ImageAddress(k) == 1024 * k
SectionStart(k) == 1024 * k + 256
InnerAddress == ImageAddress(0) + 512

FlagWords == {81, 128}
TypeNames == { <<"a", "b">>, <<"b", "a">> }
Substrings == { <<"a", "b">>, <<"b">> }
Values == {1, 2}

\* A null record, one of tag 1 with nothing else, a direct record, an
\* indirect one and one of an unknown tag.
RawWords == {0, 1, 4, 5, 6}

DefaultDescriptor ==
  [flags |-> 81, nameOffset |-> 0, name |-> <<"a", "b">>, fnOffset |-> 0, value |-> NULL]

\* _flags, _name (and the string it leads to), _metadataAccessFunction (and
\* the value the function returns).
Descriptors ==
  { d \in [flags : FlagWords, nameOffset : {0, 4}, name : TypeNames,
           fnOffset : {0, 4}, value : {NULL} \cup Values] :
      /\ d.nameOffset = 0 => d.name = DefaultDescriptor.name
      /\ d.fnOffset = 0 => d.value = NULL }

\* _pointer, the pointer stored where an indirect record leads (inner), and
\* the descriptor at the end.
RecordPool ==
  { r \in [raw : RawWords, inner : {NULL, InnerAddress}, desc : Descriptors] :
      /\ r.raw # 5 => r.inner = NULL
      /\ (r.raw \notin {4, 5} \/ (r.raw = 5 /\ r.inner = NULL))
           => r.desc = DefaultDescriptor }

NullDescriptor == [addr |-> NULL, obj |-> DefaultDescriptor, loads |-> 0]

\* A mutant of getContextDescriptor: tag 1 is taken for a direct pointer.
getContextDescriptor_direct(this, rec) ==
  IF getInt(rec.raw, 3) \in {0, 1}
    THEN [addr |-> get(this, rec.raw, 3, WalkBuild, FALSE, 0), obj |-> rec.desc,
          loads |-> 0]
    ELSE NullDescriptor

\* SWTTypeMetadataRecord::getContextDescriptor, `this` the record's address:
\* the descriptor's address, the descriptor there, and how many pointers were
\* loaded from memory on the way.
getContextDescriptor(this, rec) ==
  CASE getInt(rec.raw, 3) = 0 ->
         [addr |-> get(this, rec.raw, 3, WalkBuild, FALSE, 0), obj |-> rec.desc,
          loads |-> 0]
    [] getInt(rec.raw, 3) = 1 ->
         IF get(this, rec.raw, 3, WalkBuild, FALSE, 0) # NULL
           THEN [addr |-> rec.inner, obj |-> rec.desc, loads |-> 1]
           ELSE NullDescriptor
    [] OTHER -> NullDescriptor

\* A mutant of isGeneric: the wrong bit is tested.
isGeneric_bit6(descriptor) == BitAndNat(descriptor.flags, 64) # 0

\* SWTTypeContextDescriptor::isGeneric
isGeneric(descriptor) == BitAndNat(descriptor.flags, 128) # 0

\* SWTTypeContextDescriptor::getName: the string's address and its characters.
getName(cd) ==
  [addr |-> get(cd.addr + 8, cd.obj.nameOffset, 0, WalkBuild, FALSE, 0),
   chars |-> cd.obj.name]

\* SWTTypeContextDescriptor::getMetadata: whether the access function was
\* called, and the value it returned.
getMetadata(cd) ==
  IF get(cd.addr + 12, cd.obj.fnOffset, 0, WalkBuild, TRUE, 0) # NULL
    THEN [accessed |-> TRUE, calls |-> 1, value |-> cd.obj.value]
    ELSE [accessed |-> FALSE, calls |-> 0, value |-> NULL]

\* nullptr != std::strstr(haystack, needle)
strstr(haystack, needle) ==
  \E i \in 1 .. (Len(haystack) - Len(needle) + 1) :
    SubSeq(haystack, i, i + Len(needle) - 1) = needle

Skipped == [accessed |-> FALSE, accesses |-> 0, called |-> FALSE, value |-> NULL]

\* A mutant of ExamineRecord: the metadata is asked for before the name is
\* looked at.
ExamineRecord_eager(this, rec, nameSubstring) ==
  LET contextDescriptor == getContextDescriptor(this, rec) IN
  IF contextDescriptor.addr = NULL THEN Skipped
  ELSE IF isGeneric(contextDescriptor.obj) THEN Skipped
  ELSE
    LET typeMetadata == getMetadata(contextDescriptor)
        typeName == getName(contextDescriptor)
        nameOK == typeName.addr # NULL /\ strstr(typeName.chars, nameSubstring)
    IN
    [accessed |-> typeMetadata.accessed,
     accesses |-> typeMetadata.calls,
     called |-> nameOK /\ typeMetadata.value # NULL,
     value |-> IF nameOK THEN typeMetadata.value ELSE NULL]

\* The body of the record loop, the same in both versions: whether and how
\* often the access function is called, whether the visitor is, and with which
\* value.
ExamineRecord(this, rec, nameSubstring) ==
  LET contextDescriptor == getContextDescriptor(this, rec) IN
  IF contextDescriptor.addr = NULL THEN Skipped
  ELSE IF isGeneric(contextDescriptor.obj) THEN Skipped
  ELSE
    LET typeName == getName(contextDescriptor)
        nameOK == typeName.addr # NULL /\ strstr(typeName.chars, nameSubstring)
    IN
    IF ~nameOK THEN Skipped
    ELSE LET typeMetadata == getMetadata(contextDescriptor) IN
         [accessed |-> typeMetadata.accessed,
          accesses |-> typeMetadata.calls,
          called |-> typeMetadata.value # NULL,
          value |-> typeMetadata.value]

(***************************************************************************)
(* What a record is, said without the code: used by the history variables  *)
(* only.                                                                   *)
(***************************************************************************)
Tag(rec) == rec.raw % 4
Displacement(rec) == rec.raw - (rec.raw % 4)
HasDescriptor(rec) ==
  \/ Tag(rec) = 0 /\ Displacement(rec) # 0
  \/ Tag(rec) = 1 /\ Displacement(rec) # 0 /\ rec.inner # NULL
GenericFlagSet(flags) == (flags \div 128) % 2 = 1
Contains(name, part) ==
  \E i \in 0 .. Len(name) : \E j \in i .. Len(name) : SubSeq(name, i + 1, j) = part
NameAccepted(rec, part) ==
  rec.desc.nameOffset # 0 /\ Contains(rec.desc.name, part)
Qualifies(rec, part) ==
  /\ HasDescriptor(rec)
  /\ ~GenericFlagSet(rec.desc.flags)
  /\ NameAccepted(rec, part)
  /\ rec.desc.fnOffset # 0
  /\ rec.desc.value # NULL

\* Everything the visitor needs of a record but a clear generic flag.
Eligible(rec, part) ==
  /\ HasDescriptor(rec)
  /\ NameAccepted(rec, part)
  /\ rec.desc.fnOffset # 0
  /\ rec.desc.value # NULL

NoLast == [resolved |-> FALSE, flags |-> 0, eligible |-> FALSE, accessed |-> FALSE,
           called |-> FALSE, late |-> FALSE, inTable |-> FALSE,
           named |-> FALSE, accesses |-> 0]

(***************************************************************************)
(* SWTSectionBounds and the two versions of the enumeration.               *)
(***************************************************************************)
NewImpl == "_TestingInternals"
OldImpl == "TestingInternals"
PlatformsOf(impl) ==
  IF impl = NewImpl THEN {"apple", "windows", "elf", "static"}
  ELSE {"apple", "linux", "runtime", "static"}

NoSection == [imageAddress |-> NULL, start |-> NULL, size |-> 0]
\* A section holds up to MaxRecords whole records and ends there or inside
\* the next one.
Sizes == { RecordStride * n + r : n \in 0 .. MaxRecords, r \in {0, RecordStride \div 2} }

\* SWTSectionBounds::begin
begin(sb) == sb.start

\* SWTSectionBounds::end
end(sb) == sb.start + sb.size

\* The first address that is not of a whole record of the table.
TableEnd(sb) == sb.start + (sb.size \div RecordStride) * RecordStride

\* What the k-th image may hold for a section: on the platforms whose list
\* holds only the sections found, one that was found; in a statically
\* linked build, the one section between sectionBegin and sectionEnd.
SectionsOfImage(impl, platform, k) ==
  LET withSize(S) == { [imageAddress |-> IF platform = "static" THEN NULL
                                         ELSE ImageAddress(k),
                        start |-> SectionStart(k), size |-> n] : n \in S }
  IN IF impl = NewImpl /\ platform \in {"apple", "windows"}
       THEN withSize(Sizes \ {0})
     ELSE IF platform = "static"
       THEN withSize(Sizes)
       ELSE withSize(Sizes) \cup {NoSection}

\* Whether enumerateTypeMetadataSections calls the body for a section.
CallsBody(platform, sb) ==
  CASE platform = "static" -> TRUE
    [] platform = "linux" -> sb.start # NULL
    [] OTHER -> sb.start # NULL /\ sb.size > 0

\* A mutant of KeepEnumerating: the stop flag is not looked at.
KeepEnumerating_always(platform, stop) == TRUE

\* enumerateTypeMetadataSections of _TestingInternals after the body
\* returned: whether the next section is looked for.  Apple, Windows:
\* if (stop) break.  ELF: the callback returns !stop and
\* swift_enumerateAllMetadataSections goes on while it returns true.
KeepEnumerating(platform, stop) ==
  CASE platform = "apple" -> ~stop
    [] platform = "windows" -> ~stop
    [] platform = "elf" -> ~stop
    [] OTHER -> TRUE

\* enumerateTypeMetadataSections of TestingInternals after the body returned:
\* the Apple loop has no exit, the dl_iterate_phdr callback returns 0 and the
\* swift_enumerateAllMetadataSections callback returns true.
KeepEnumerating_old(platform) == TRUE

WalkIdle ==
  /\ wPc = "idle"
  /\ wImpl = NewImpl
  /\ wPlatform = "static"
  /\ wSub = <<>>
  /\ wImages = 0
  /\ wIdx = 0
  /\ wSection = NoSection
  /\ wIt = NULL
  /\ wStop = FALSE
  /\ wVisited = <<>>
  /\ wExpected = <<>>
  /\ wLast = NoLast
  /\ wStopImg = 0
  /\ wLastImg = 0

WalkInit ==
  /\ wPc = "sections"
  /\ wImpl \in {NewImpl, OldImpl}
  /\ wPlatform \in PlatformsOf(wImpl)
  /\ wSub \in Substrings
  /\ wImages \in (IF wPlatform = "static" THEN {1} ELSE 1 .. MaxImages)
  /\ wIdx = 0
  /\ wSection = NoSection
  /\ wIt = NULL
  /\ wStop = FALSE
  /\ wVisited = <<>>
  /\ wExpected = <<>>
  /\ wLast = NoLast
  /\ wStopImg = 0
  /\ wLastImg = 0

\* The body is entered with section sb of image k.
EnterBody(k, sb, stop) ==
  /\ wPc' = "records"
  /\ wIdx' = k
  /\ wSection' = sb
  /\ wIt' = begin(sb)
  /\ wStop' = stop

\* Image k has no section for the body.
SkipImage(k) ==
  /\ wIdx' = k
  /\ UNCHANGED <<wPc, wSection, wIt, wStop>>

\* Where the walk can find a record, and the loop body worked out once for
\* each record there (@@ makes the function a table).
RecordAddresses ==
  { SectionStart(k) + RecordStride * j :
      k \in 1 .. MaxImages, j \in 0 .. (MaxRecords + MaxOverrun) }

Examined ==
  [this \in RecordAddresses, rec \in RecordPool, sub \in Substrings |->
     ExamineRecord(this, rec, sub)] @@ <<>>

History ==
  [rec \in RecordPool, sub \in Substrings |->
     [resolved |-> HasDescriptor(rec),
      flags |-> IF HasDescriptor(rec) THEN rec.desc.flags ELSE 0,
      eligible |-> Eligible(rec, sub),
      named |-> NameAccepted(rec, sub),
      qualifies |-> Qualifies(rec, sub)]] @@ <<>>

\* One record is examined at wIt, the visitor drawn to set stop or not.
\* inTable: the record is a whole record of the section's table.
Examine(rec, setStop, inTable) ==
  LET r == Examined[wIt, rec, wSub]
      h == History[rec, wSub]
  IN
  /\ wIt' = wIt + RecordStride
  /\ IF r.called
       THEN /\ wVisited' = Append(wVisited, r.value)
            /\ wStop' = (wStop \/ setStop)
            /\ wLastImg' = wIdx
            /\ wStopImg' = IF setStop /\ wStopImg = 0 THEN wIdx ELSE wStopImg
       ELSE /\ ~setStop
            /\ UNCHANGED <<wVisited, wStop, wLastImg, wStopImg>>
  /\ wExpected' = IF inTable /\ h.qualifies
                    THEN Append(wExpected, rec.desc.value)
                    ELSE wExpected
  /\ wLast' = [resolved |-> h.resolved,
               flags |-> h.flags,
               eligible |-> h.eligible,
               accessed |-> r.accessed,
               called |-> r.called,
               late |-> r.called /\ wStop,
               inTable |-> inTable,
               named |-> h.named,
               accesses |-> r.accesses]

\* The body returned to enumerateTypeMetadataSections.
LeaveBody(keep) ==
  /\ wPc' = IF keep THEN "sections" ELSE "done"
  /\ wSection' = NoSection
  /\ wIt' = NULL
  /\ wVisited' = <<>>
  /\ wExpected' = <<>>
  /\ wLast' = NoLast
  /\ UNCHANGED <<wImpl, wPlatform, wSub, wImages, wIdx, wStop, wStopImg, wLastImg>>

(***************************************************************************)
(* Sources/_TestingInternals                                               *)
(***************************************************************************)
\* enumerateTypeMetadataSections takes the next section: Apple and Windows
\* from the list, bool stop = false set before the loop; ELF in the callback
\* of swift_enumerateAllMetadataSections, which sets bool stop = false.
NextImage ==
  /\ wPc = "sections"
  /\ wImpl = NewImpl
  /\ wIdx < wImages
  /\ \E sb \in SectionsOfImage(wImpl, wPlatform, wIdx + 1) :
       IF CallsBody(wPlatform, sb)
         THEN EnterBody(wIdx + 1, sb, IF wPlatform = "elf" THEN FALSE ELSE wStop)
         ELSE SkipImage(wIdx + 1)
  /\ UNCHANGED <<wImpl, wPlatform, wSub, wImages, wVisited, wExpected, wLast,
                 wStopImg, wLastImg>>
  /\ UNCHANGED <<ptrVars, mapVars, imageVars>>

\* for (const auto& record : sectionBounds): one turn of the loop, which
\* goes on while the iterator differs from end().  Past the table the
\* record is whatever the memory after the section holds.
WalkRecord ==
  /\ wPc = "records"
  /\ wImpl = NewImpl
  /\ wIt # end(wSection)
  /\ wIt + RecordStride <= TableEnd(wSection) + RecordStride * MaxOverrun
  /\ \E rec \in RecordPool, setStop \in BOOLEAN :
       Examine(rec, setStop, wIt + RecordStride <= TableEnd(wSection))
  /\ UNCHANGED <<wPc, wImpl, wPlatform, wSub, wImages, wIdx, wSection>>
  /\ UNCHANGED <<ptrVars, mapVars, imageVars>>

\* Past the section the read may also fault.
OverrunFault ==
  /\ wPc = "records"
  /\ wImpl = NewImpl
  /\ wIt # end(wSection)
  /\ wIt + RecordStride > end(wSection)
  /\ wPc' = "crashed"
  /\ UNCHANGED <<wImpl, wPlatform, wSub, wImages, wIdx, wSection, wIt, wStop,
                 wVisited, wExpected, wLast, wStopImg, wLastImg>>
  /\ UNCHANGED <<ptrVars, mapVars, imageVars>>

\* The iterator reached end(): the body returns.
BodyReturns ==
  /\ wPc = "records"
  /\ wImpl = NewImpl
  /\ wIt = end(wSection)
  /\ LeaveBody(KeepEnumerating(wPlatform, wStop))
  /\ UNCHANGED <<ptrVars, mapVars, imageVars>>

(***************************************************************************)
(* Sources/TestingInternals                                                *)
(***************************************************************************)
\* enumerateTypeMetadataSections takes the next image; the body sets
\* bool stop = false.
NextImage_old ==
  /\ wPc = "sections"
  /\ wImpl = OldImpl
  /\ wIdx < wImages
  /\ \E sb \in SectionsOfImage(wImpl, wPlatform, wIdx + 1) :
       IF CallsBody(wPlatform, sb)
         THEN EnterBody(wIdx + 1, sb, FALSE)
         ELSE SkipImage(wIdx + 1)
  /\ UNCHANGED <<wImpl, wPlatform, wSub, wImages, wVisited, wExpected, wLast,
                 wStopImg, wLastImg>>
  /\ UNCHANGED <<ptrVars, mapVars, imageVars>>

\* size_t recordCount = size / sizeof(SWTTypeMetadataRecord);
recordCount(sb) == sb.size \div RecordStride

\* for (size_t i = 0; i < recordCount && !stop; i++)
LoopGoesOn_old == (wIt - wSection.start) \div RecordStride < recordCount(wSection) /\ ~wStop

WalkRecord_old ==
  /\ wPc = "records"
  /\ wImpl = OldImpl
  /\ LoopGoesOn_old
  /\ \E rec \in RecordPool, setStop \in BOOLEAN :
       Examine(rec, setStop, wIt + RecordStride <= TableEnd(wSection))
  /\ UNCHANGED <<wPc, wImpl, wPlatform, wSub, wImages, wIdx, wSection>>
  /\ UNCHANGED <<ptrVars, mapVars, imageVars>>

BodyReturns_old ==
  /\ wPc = "records"
  /\ wImpl = OldImpl
  /\ ~LoopGoesOn_old
  /\ LeaveBody(KeepEnumerating_old(wPlatform))
  /\ UNCHANGED <<ptrVars, mapVars, imageVars>>

\* No image is left: swt_enumerateTypesWithNamesContaining returns.
Finish ==
  /\ wPc = "sections"
  /\ wIdx = wImages
  /\ wPc' = "done"
  /\ UNCHANGED <<wImpl, wPlatform, wSub, wImages, wIdx, wSection, wIt, wStop,
                 wVisited, wExpected, wLast, wStopImg, wLastImg>>
  /\ UNCHANGED <<ptrVars, mapVars, imageVars>>


(***************************************************************************)
(* sml_findSection for ELF images (_ImageryInternals/Implementation+ELF.cpp).*)
(* The image's file is what map() would map: the type of the section header *)
(* the header's e_shstrndx selects, and the section headers with the names  *)
(* the string table gives them.  map() itself is the map part above; here   *)
(* only its outcome matters.                                                *)
(***************************************************************************)
MaxSections == 2

SectionNames == {"swift5_tests", ".text"}

\* Elf_Shdr, with sh_name already looked up in the string table.
SectionHeaders == [sh_name : SectionNames, sh_offset : {128}, sh_size : {16, 32}]

\* The files map() can map: the header fields that place the section headers,
\* the type of the string table's header, the section headers the loop ranges
\* over (the string table's own header, entry e_shstrndx, comes after them),
\* and the length of the file.  With e_shoff = 640 the file is shorter than its
\* header says.
ElfFiles ==
  [e_shoff : {64, 640}, e_shentsize : {64},
   strtabType : {"SHT_STRTAB", "SHT_PROGBITS"},
   sections : SeqsUpTo(SectionHeaders, MaxSections),
   size : {512}]

\* The i-th section header (from 0) lies inside the mapped copy.
HeaderMapped(file, i) ==
  file.e_shoff + file.e_shentsize * (i + 1) <= file.size

unmapEhdrWhenDone_never(mapped) == << >>

\* SMLDeferred unmapEhdrWhenDone: what runs when the scope of a successful map()
\* is left.
unmapEhdrWhenDone(mapped) ==
  << [call |-> "munmap", addr |-> mapped.addr, size |-> mapped.size] >>

NotMapped == [addr |-> NULL, size |-> 0]

NotSet == [set |-> FALSE, start |-> NULL, size |-> 0]

outSection_inMappedCopy(baseLoaded, shdr) ==
  [set |-> TRUE, start |-> Mapping + shdr.sh_offset, size |-> shdr.sh_size]

\* Lines 211-212: what a match stores in *outSection.
outSection(baseLoaded, shdr) ==
  [set |-> TRUE, start |-> baseLoaded + shdr.sh_offset, size |-> shdr.sh_size]

FindIdle ==
  /\ fPc = "idle" /\ fEhdr = [e_shoff |-> 0, e_shstrndx |-> "SHN_UNDEF", e_shnum |-> 0]
  /\ fFile = [e_shoff |-> 64, e_shentsize |-> 64, strtabType |-> "SHT_STRTAB",
              sections |-> << >>, size |-> 0]
  /\ fName = ".text" /\ fIdx = 0 /\ fMapped = NotMapped /\ fCalls = << >>
  /\ fReturn = "none" /\ fOut = NotSet /\ fOOB = FALSE

FindInit ==
  /\ fPc = "headers"
  /\ fFile \in ElfFiles
  /\ fEhdr \in [e_shoff : {0, 64},
                e_shstrndx : {"SHN_UNDEF", "SHN_XINDEX", "index"},
                e_shnum : {Len(fFile.sections)}]
  /\ fName \in SectionNames
  /\ fIdx = 0 /\ fMapped = NotMapped /\ fCalls = << >>
  /\ fReturn = "none" /\ fOut = NotSet /\ fOOB = FALSE

\* A return statement: the value, and the deferred actions of the scopes left.
FindReturn(value, deferred) ==
  /\ fReturn' = value
  /\ fCalls' = fCalls \o deferred
  /\ fPc' = "done"

\* Lines 175-186: the image must have section headers and a string table.
FindHeaders ==
  /\ fPc = "headers"
  /\ IF \/ fEhdr.e_shoff = 0 \/ fEhdr.e_shstrndx = "SHN_UNDEF"
        \/ fEhdr.e_shnum = 0 \/ fEhdr.e_shstrndx = "SHN_XINDEX"
       THEN FindReturn("false", << >>)
       ELSE fPc' = "map" /\ UNCHANGED <<fReturn, fCalls>>
  /\ UNCHANGED <<fEhdr, fFile, fName, fIdx, fMapped, fOut, fOOB>>
  /\ UNCHANGED <<ptrVars, mapVars, walkVars, coffVars, regVars, enumVars, decVars, moreVars>>

\* Lines 188-201: map the file; on success arm the deferred munmap.
FindMap ==
  /\ fPc = "map"
  /\ \E ok \in BOOLEAN :
       IF ok
         THEN /\ fMapped' = [addr |-> Mapping, size |-> fFile.size]
              /\ fCalls' = Append(fCalls, [call |-> "mmap", addr |-> Mapping,
                                            size |-> fFile.size])
              /\ fPc' = "strtab"
              /\ UNCHANGED fReturn
         ELSE FindReturn("false", << >>) /\ UNCHANGED fMapped
  /\ UNCHANGED <<fEhdr, fFile, fName, fIdx, fOut, fOOB>>
  /\ UNCHANGED <<ptrVars, mapVars, walkVars, coffVars, regVars, enumVars, decVars, moreVars>>

\* Lines 203-205 and 221: the type of the string table's header, read from the
\* mapped copy at e_shoff + e_shentsize * e_shstrndx with no test against the
\* mapped length.  Read outside the copy, the access faults or yields any type.
\* When the type is not SHT_STRTAB the loop is skipped and control reaches the
\* final return.
FindStrtab ==
  /\ fPc = "strtab"
  /\ LET inside == HeaderMapped(fFile, Len(fFile.sections)) IN
     /\ fOOB' = (fOOB \/ ~inside)
     /\ \/ /\ ~inside
           /\ fPc' = "fault"
           /\ UNCHANGED <<fReturn, fCalls>>
        \/ \E type \in IF inside THEN {fFile.strtabType}
                                 ELSE {"SHT_STRTAB", "SHT_PROGBITS"} :
             IF type = "SHT_STRTAB"
               THEN fPc' = "sections" /\ UNCHANGED <<fReturn, fCalls>>
               ELSE FindReturn("true", unmapEhdrWhenDone(fMapped))
  /\ UNCHANGED <<fEhdr, fFile, fName, fIdx, fMapped, fOut>>
  /\ UNCHANGED <<ptrVars, mapVars, walkVars, coffVars, regVars, enumVars, decVars, moreVars>>

\* Lines 206-221: one turn of the loop over the section headers (ehdrMapped's
\* e_shnum of them), or the final return when the loop has ended.  A header
\* outside the mapped copy is read all the same: the access faults or yields
\* any header.
FindSection ==
  /\ fPc = "sections"
  /\ IF fIdx < Len(fFile.sections)
       THEN LET inside == HeaderMapped(fFile, fIdx) IN
            /\ fOOB' = (fOOB \/ ~inside)
            /\ \/ /\ ~inside
                  /\ fPc' = "fault"
                  /\ UNCHANGED <<fIdx, fReturn, fCalls, fOut>>
               \/ \E shdr \in IF inside THEN {fFile.sections[fIdx + 1]}
                                        ELSE SectionHeaders :
                    IF shdr.sh_name = fName
                      THEN /\ fOut' = outSection(ImageAddress(1), shdr)
                           /\ FindReturn("true", unmapEhdrWhenDone(fMapped))
                           /\ UNCHANGED fIdx
                      ELSE /\ fIdx' = fIdx + 1
                           /\ UNCHANGED <<fPc, fReturn, fCalls, fOut>>
       ELSE /\ FindReturn("true", unmapEhdrWhenDone(fMapped))
            /\ UNCHANGED <<fIdx, fOut, fOOB>>
  /\ UNCHANGED <<fEhdr, fFile, fName, fMapped>>
  /\ UNCHANGED <<ptrVars, mapVars, walkVars, coffVars, regVars, enumVars, decVars, moreVars>>

(***************************************************************************)
(* The PE/COFF section lookup: sml_findSection                              *)
(* (_ImageryInternals/Implementation+COFF.cpp) and findSection              *)
(* (_TestingInternals/Discovery.cpp).  The module is what the handle points *)
(* at: the DOS header, the NT header e_lfanew leads to, the section table.  *)
(***************************************************************************)
IMAGE_DOS_SIGNATURE == "MZ"

IMAGE_NT_SIGNATURE == "PE"

IMAGE_SIZEOF_SHORT_NAME == 8

\* A name that fills the 8 bytes of IMAGE_SECTION_HEADER.Name, and a longer
\* one that begins with it.
ShortName == <<".", "s", "w", "5", "t", "y", "m", "d">>

LongName == ShortName \o <<"2">>

\* What the Name field can hold: short names, and "/<offset>" for a name kept
\* in the string table.
CoffNames == TypeNames \cup {ShortName, <<"/", "4">>}

\* The names a caller can ask for.
CoffRequests == TypeNames \cup {LongName}

\* IMAGE_SECTION_HEADER.
CoffSections ==
  [VirtualAddress : {0, 256}, VirtualSize : {0, 16}, SizeOfRawData : {8},
   Name : CoffNames]

Take(str, n) == SubSeq(str, 1, IF Len(str) < n THEN Len(str) ELSE n)

\* std::strncmp(a, b, n) = 0 on NUL-terminated strings.
strncmp(a, b, n) == IF Take(a, n) = Take(b, n) THEN 0 ELSE 1

Min(a, b) == IF a < b THEN a ELSE b

NotFound == [found |-> FALSE, start |-> NULL, size |-> 0]

CoffIdle ==
  /\ cPc = "idle" /\ cImpl = "findSection" /\ cName = << >> /\ cIdx = 0
  /\ cModule = [hModule |-> NULL, e_magic |-> IMAGE_DOS_SIGNATURE, e_lfanew |-> 0,
                Signature |-> IMAGE_NT_SIGNATURE, sections |-> << >>]
  /\ cWalked = 0 /\ cResult = NotFound

\* sml_findSection reads through image->base without a test, so its images have
\* a base; findSection is also given the null handle.
CoffInit ==
  /\ cPc = "dos"
  /\ cImpl \in {"sml_findSection", "findSection"}
  /\ cModule \in [hModule : IF cImpl = "findSection"
                              THEN {NULL, ImageAddress(1)} ELSE {ImageAddress(1)},
                  e_magic : {IMAGE_DOS_SIGNATURE, "ZM"},
                  e_lfanew : {-1, 0, 64},
                  Signature : {IMAGE_NT_SIGNATURE, "NE"},
                  sections : SeqsUpTo(CoffSections, MaxSections)]
  /\ cName \in CoffRequests
  /\ cIdx = 0 /\ cWalked = 0 /\ cResult = NotFound

\* The tests on the DOS header: Implementation+COFF.cpp 78-81, Discovery.cpp
\* 336-345.
CoffDos ==
  /\ cPc = "dos"
  /\ LET invalid ==
           IF cImpl = "findSection"
             THEN \/ cModule.hModule = NULL
                  \/ cModule.e_magic # IMAGE_DOS_SIGNATURE
                  \/ cModule.e_lfanew <= 0
             ELSE cModule.e_lfanew <= 0
     IN cPc' = IF invalid THEN "done" ELSE "nt"
  /\ UNCHANGED <<cImpl, cModule, cName, cIdx, cWalked, cResult>>
  /\ UNCHANGED <<ptrVars, mapVars, walkVars, findVars, regVars, enumVars, decVars, moreVars>>

\* The test on the NT header: Implementation+COFF.cpp 83-86, Discovery.cpp 348-351.
CoffNt ==
  /\ cPc = "nt"
  /\ cPc' = IF cModule.Signature # IMAGE_NT_SIGNATURE THEN "done" ELSE "sections"
  /\ UNCHANGED <<cImpl, cModule, cName, cIdx, cWalked, cResult>>
  /\ UNCHANGED <<ptrVars, mapVars, walkVars, findVars, regVars, enumVars, decVars, moreVars>>

\* One turn of the loop over the section table, or the return after it.
CoffSection ==
  /\ cPc = "sections"
  /\ IF cIdx < Len(cModule.sections)
       THEN LET section == cModule.sections[cIdx + 1]
                start == cModule.hModule + section.VirtualAddress
                size == Min(section.VirtualSize, section.SizeOfRawData)
            IN /\ cWalked' = cWalked + 1
               /\ IF /\ section.VirtualAddress # 0
                     /\ start # NULL /\ size > 0
                     /\ strncmp(cName, section.Name, IMAGE_SIZEOF_SHORT_NAME) = 0
                    THEN /\ cResult' = [found |-> TRUE, start |-> start, size |-> size]
                         /\ cPc' = "done"
                         /\ UNCHANGED cIdx
                    ELSE /\ cIdx' = cIdx + 1
                         /\ UNCHANGED <<cPc, cResult>>
       ELSE cPc' = "done" /\ UNCHANGED <<cIdx, cWalked, cResult>>
  /\ UNCHANGED <<cImpl, cModule, cName>>
  /\ UNCHANGED <<ptrVars, mapVars, walkVars, findVars, regVars, enumVars, decVars, moreVars>>

(***************************************************************************)
(* The image registry on Apple platforms: getSectionBounds                  *)
(* (_TestingInternals), getMachHeaders (TestingInternals) and the Mach-O    *)
(* sml_enumerateImages (_ImageryInternals).  Thread E makes the enumeration *)
(* calls and runs the visitor; thread L loads images at any time.  dyld     *)
(* runs the add-image callback on the loading thread, one load at a time.   *)
(***************************************************************************)
MaxLoads == 3

MaxCalls == 2

RegImpls == {"getSectionBounds", "getMachHeaders", "sml_enumerateImages"}

\* "swift": an image outside the shared cache with a __swift5_types section;
\* "plain": any other image.
ImageKinds == {"swift", "plain"}

\* What the add-image callback does with an image of this kind.
Registers(impl, kind) == impl = "sml_enumerateImages" \/ kind = "swift"

CopiesList_never(impl) == FALSE

\* Whether the call iterates a copy of the list.
CopiesList(impl) == impl # "sml_enumerateImages"

UnlockPoint_afterLoop(impl) == "after loop"

\* Where the call releases the lock it took.
UnlockPoint(impl) == IF CopiesList(impl) THEN "after copy" ELSE "after loop"

\* The list the loop of the call ranges over.
IteratedList == IF CopiesList(rImpl) THEN eSnap ELSE rList

\* The statement of the remove-image callback of sml_enumerateImages,
\* Implementation+MachO.cpp line 68: its outcomes.  std::remove moves
\* the elements other than x to the front in order, leaves the rest of the
\* vector as it was, and returns the iterator after the moved ones;
\* vector::erase(position) takes that one element out.  Erasing at end() is
\* undefined: the builds fault, drop the last element, or leave the vector as
\* it is.
eraseRemove(list, x) ==
  LET kept == SelectSeq(list, LAMBDA e : e # x)
      removed == kept \o SubSeq(list, Len(kept) + 1, Len(list))
      position == Len(kept) + 1
  IN IF position <= Len(removed)
       THEN { [fault |-> FALSE,
               list |-> SubSeq(removed, 1, position - 1)
                          \o SubSeq(removed, position + 1, Len(removed))] }
       ELSE { [fault |-> TRUE, list |-> removed], [fault |-> FALSE, list |-> removed] }
            \cup (IF removed = << >> THEN {}
                  ELSE { [fault |-> FALSE, list |-> SubSeq(removed, 1, Len(removed) - 1)] })

LockFree_always(lock) == TRUE

\* os_unfair_lock_lock, pthread_rwlock_rdlock and pthread_rwlock_wrlock return
\* when no other holder has the lock.  (The model has one reading thread.)
LockFree(lock) == lock = "free"

RegIdle ==
  /\ rImpl = "getSectionBounds" /\ rLoaded = << >> /\ rList = << >> /\ rLock = "free"
  /\ ePc = "off" /\ eCalls = 0 /\ eSnap = << >> /\ eIdx = 0 /\ eVisited = << >>
  /\ eAdd = 0 /\ lPc = "idle" /\ lAdd = 0 /\ eStop = FALSE /\ ePrev = << >>

RegInit ==
  /\ rImpl \in RegImpls
  /\ rLoaded \in SeqsUpTo(ImageKinds, 1)
  /\ rList = << >> /\ rLock = "free"
  /\ ePc = "start" /\ eCalls = 0 /\ eSnap = << >> /\ eIdx = 0 /\ eVisited = << >>
  /\ eAdd = 0 /\ lPc = "idle" /\ lAdd = 0 /\ eStop = FALSE /\ ePrev = << >>

\* dispatch_once_f of the first call: objc_addLoadImageFunc installs the callback
\* and calls it for every image already loaded.
Once ==
  /\ ePc = "start" /\ lPc = "idle"
  /\ rList' = SelectSeq([i \in 1 .. Len(rLoaded) |-> [image |-> i, by |-> "once"]],
                        LAMBDA e : Registers(rImpl, rLoaded[e.image]))
  /\ ePc' = "idle"
  /\ UNCHANGED <<rImpl, rLoaded, rLock, eCalls, eSnap, eIdx, eVisited, eAdd, lPc, lAdd,
                 eStop, ePrev>>
  /\ UNCHANGED <<ptrVars, mapVars, walkVars, findVars, coffVars, enumVars, decVars, moreVars>>

\* A call begins.
EnumCall ==
  /\ ePc = "idle" /\ eCalls < MaxCalls
  /\ ePc' = "lock"
  /\ eSnap' = << >> /\ eIdx' = 0 /\ eVisited' = << >> /\ eStop' = FALSE
  /\ ePrev' = eSnap
  /\ UNCHANGED <<rImpl, rLoaded, rList, rLock, eCalls, eAdd, lPc, lAdd>>
  /\ UNCHANGED <<ptrVars, mapVars, walkVars, findVars, coffVars, enumVars, decVars, moreVars>>

\* os_unfair_lock_lock / pthread_rwlock_rdlock.
EnumLock ==
  /\ ePc = "lock" /\ LockFree(rLock)
  /\ rLock' = "enumeration"
  /\ ePc' = IF CopiesList(rImpl) THEN "copy" ELSE "loop"
  /\ UNCHANGED <<rImpl, rLoaded, rList, eCalls, eSnap, eIdx, eVisited, eAdd, lPc, lAdd,
                 eStop, ePrev>>
  /\ UNCHANGED <<ptrVars, mapVars, walkVars, findVars, coffVars, enumVars, decVars, moreVars>>

\* result = *sectionBounds / result = *machHeaders.
EnumCopy ==
  /\ ePc = "copy"
  /\ eSnap' = rList
  /\ ePc' = "unlock"
  /\ UNCHANGED <<rImpl, rLoaded, rList, rLock, eCalls, eIdx, eVisited, eAdd, lPc, lAdd,
                 eStop, ePrev>>
  /\ UNCHANGED <<ptrVars, mapVars, walkVars, findVars, coffVars, enumVars, decVars, moreVars>>

\* The statement after the copy.
EnumUnlock ==
  /\ ePc = "unlock"
  /\ rLock' = IF UnlockPoint(rImpl) = "after copy" THEN "free" ELSE rLock
  /\ ePc' = "loop"
  /\ UNCHANGED <<rImpl, rLoaded, rList, eCalls, eSnap, eIdx, eVisited, eAdd, lPc, lAdd,
                 eStop, ePrev>>
  /\ UNCHANGED <<ptrVars, mapVars, walkVars, findVars, coffVars, enumVars, decVars, moreVars>>

\* The head of the loop: the next element, or the end of the loop.  In
\* sml_enumerateImages the element first goes to sml_getImageContainingAddress;
\* in the others the visitor is called next.
EnumLoop ==
  /\ ePc = "loop"
  /\ IF eIdx < Len(IteratedList) /\ ~eStop
       THEN /\ eIdx' = eIdx + 1
            /\ IF rImpl = "sml_enumerateImages"
                 THEN ePc' = "dladdr" /\ UNCHANGED eVisited
                 ELSE /\ ePc' = "visitor"
                      /\ eVisited' = Append(eVisited, IteratedList[eIdx + 1])
       ELSE ePc' = "end" /\ UNCHANGED <<eIdx, eVisited>>
  /\ UNCHANGED <<rImpl, rLoaded, rList, rLock, eCalls, eSnap, eAdd, lPc, lAdd, eStop,
                 ePrev>>
  /\ UNCHANGED <<ptrVars, mapVars, walkVars, findVars, coffVars, enumVars, decVars, moreVars>>

\* sml_getImageContainingAddress(mh, &image): dladdr finds the image or not.
EnumDladdr ==
  /\ ePc = "dladdr"
  /\ \E found \in BOOLEAN :
       IF found
         THEN ePc' = "visitor" /\ eVisited' = Append(eVisited, IteratedList[eIdx])
         ELSE ePc' = "loop" /\ UNCHANGED eVisited
  /\ UNCHANGED <<rImpl, rLoaded, rList, rLock, eCalls, eSnap, eIdx, eAdd, lPc, lAdd,
                 eStop, ePrev>>
  /\ UNCHANGED <<ptrVars, mapVars, walkVars, findVars, coffVars, enumVars, decVars, moreVars>>

\* The visitor returns; getMachHeaders' loop gives it no stop flag.
VisitorReturns ==
  /\ ePc = "visitor"
  /\ \E stop \in IF rImpl = "getMachHeaders" THEN {FALSE} ELSE BOOLEAN : eStop' = stop
  /\ ePc' = "loop"
  /\ UNCHANGED <<rImpl, rLoaded, rList, rLock, eCalls, eSnap, eIdx, eVisited, eAdd, lPc,
                 lAdd, ePrev>>
  /\ UNCHANGED <<ptrVars, mapVars, walkVars, findVars, coffVars, enumVars, decVars, moreVars>>

\* dyld loads an image on thread who ("E": from inside the visitor) and, once the
\* callback is installed, calls it: the callback returns at once for an image it
\* does not register, and else goes for the lock.
Load(who) ==
  /\ Len(rLoaded) < MaxLoads
  /\ lPc = "idle" /\ eAdd = 0
  /\ IF who = "E" THEN ePc = "visitor" ELSE ePc \notin {"add lock", "add push"}
  /\ \E kind \in ImageKinds :
       /\ rLoaded' = Append(rLoaded, kind)
       /\ IF ePc # "start" /\ Registers(rImpl, kind)
            THEN IF who = "E"
                   THEN /\ ePc' = "add lock" /\ eAdd' = Len(rLoaded) + 1
                        /\ UNCHANGED <<lPc, lAdd>>
                   ELSE /\ lPc' = "add lock" /\ lAdd' = Len(rLoaded) + 1
                        /\ UNCHANGED <<ePc, eAdd>>
            ELSE UNCHANGED <<ePc, eAdd, lPc, lAdd>>
  /\ UNCHANGED <<rImpl, rList, rLock, eCalls, eSnap, eIdx, eVisited, eStop, ePrev>>
  /\ UNCHANGED <<ptrVars, mapVars, walkVars, findVars, coffVars, enumVars, decVars, moreVars>>

\* The callback's os_unfair_lock_lock / pthread_rwlock_wrlock.
AddLock(who) ==
  /\ LockFree(rLock)
  /\ IF who = "E"
       THEN ePc = "add lock" /\ ePc' = "add push" /\ UNCHANGED lPc
       ELSE lPc = "add lock" /\ lPc' = "add push" /\ UNCHANGED ePc
  /\ rLock' = IF who = "E" THEN "callback E" ELSE "callback L"
  /\ UNCHANGED <<rImpl, rLoaded, rList, eCalls, eSnap, eIdx, eVisited, eAdd, lAdd, eStop,
                 ePrev>>
  /\ UNCHANGED <<ptrVars, mapVars, walkVars, findVars, coffVars, enumVars, decVars, moreVars>>

\* The callback's emplace_back / push_back and unlock; it returns to dyld, and
\* on thread E dyld returns to the visitor.
AddPush(who) ==
  /\ IF who = "E"
       THEN /\ ePc = "add push" /\ ePc' = "visitor" /\ eAdd' = 0
            /\ rList' = Append(rList, [image |-> eAdd, by |-> "E"])
            /\ UNCHANGED <<lPc, lAdd>>
       ELSE /\ lPc = "add push" /\ lPc' = "idle" /\ lAdd' = 0
            /\ rList' = Append(rList, [image |-> lAdd, by |-> "L"])
            /\ UNCHANGED <<ePc, eAdd>>
  /\ rLock' = "free"
  /\ UNCHANGED <<rImpl, rLoaded, eCalls, eSnap, eIdx, eVisited, eStop, ePrev>>
  /\ UNCHANGED <<ptrVars, mapVars, walkVars, findVars, coffVars, enumVars, decVars, moreVars>>

\* dyld unloads an image on thread who; Swift images are not unloaded.  With
\* the hooks installed, the remove-image callback of sml_enumerateImages is
\* called and goes for the write lock; the other registries have no such hook.
Unload(who) ==
  /\ ePc # "start" /\ lPc = "idle" /\ eAdd = 0
  /\ who = "E" => ePc = "visitor"
  /\ \E i \in 1 .. Len(rLoaded) :
       /\ rLoaded[i] = "plain"
       /\ rLoaded' = [rLoaded EXCEPT ![i] = "unloaded"]
       /\ IF rImpl = "sml_enumerateImages"
            THEN IF who = "E"
                   THEN /\ ePc' = "remove lock" /\ eAdd' = i
                        /\ UNCHANGED <<lPc, lAdd>>
                   ELSE /\ lPc' = "remove lock" /\ lAdd' = i
                        /\ UNCHANGED <<ePc, eAdd>>
            ELSE UNCHANGED <<ePc, eAdd, lPc, lAdd>>
  /\ UNCHANGED <<rImpl, rList, rLock, eCalls, eSnap, eIdx, eVisited, eStop, ePrev>>
  /\ UNCHANGED <<ptrVars, mapVars, walkVars, findVars, coffVars, enumVars, decVars, moreVars>>

\* The remove-image callback's pthread_rwlock_wrlock.
RemoveLock(who) ==
  /\ LockFree(rLock)
  /\ IF who = "E"
       THEN ePc = "remove lock" /\ ePc' = "remove erase" /\ UNCHANGED lPc
       ELSE lPc = "remove lock" /\ lPc' = "remove erase" /\ UNCHANGED ePc
  /\ rLock' = IF who = "E" THEN "callback E" ELSE "callback L"
  /\ UNCHANGED <<rImpl, rLoaded, rList, eCalls, eSnap, eIdx, eVisited, eAdd, lAdd, eStop,
                 ePrev>>
  /\ UNCHANGED <<ptrVars, mapVars, walkVars, findVars, coffVars, enumVars, decVars, moreVars>>

\* The remove-image callback's erase and unlock; it returns to dyld.
RemoveErase(who) ==
  /\ IF who = "E" THEN ePc = "remove erase" ELSE lPc = "remove erase"
  /\ LET x == IF who = "E" THEN eAdd ELSE lAdd
         headers == [i \in 1 .. Len(rList) |-> rList[i].image]
     IN \E out \in eraseRemove(headers, x) :
          /\ ~out.fault
          /\ rList' = [i \in 1 .. Len(out.list) |->
                         rList[CHOOSE k \in 1 .. Len(rList) : rList[k].image = out.list[i]]]
  /\ IF who = "E"
       THEN ePc' = "visitor" /\ eAdd' = 0 /\ UNCHANGED <<lPc, lAdd>>
       ELSE lPc' = "idle" /\ lAdd' = 0 /\ UNCHANGED <<ePc, eAdd>>
  /\ rLock' = "free"
  /\ UNCHANGED <<rImpl, rLoaded, eCalls, eSnap, eIdx, eVisited, eStop, ePrev>>
  /\ UNCHANGED <<ptrVars, mapVars, walkVars, findVars, coffVars, enumVars, decVars, moreVars>>

\* The loop is over and the call returns.
EnumEnd ==
  /\ ePc = "end"
  /\ rLock' = IF UnlockPoint(rImpl) = "after loop" THEN "free" ELSE rLock
  /\ ePc' = "idle" /\ eCalls' = eCalls + 1
  /\ UNCHANGED <<rImpl, rLoaded, rList, eSnap, eIdx, eVisited, eAdd, lPc, lAdd, eStop,
                 ePrev>>
  /\ UNCHANGED <<ptrVars, mapVars, walkVars, findVars, coffVars, enumVars, decVars, moreVars>>

(***************************************************************************)
(* The images of an ELF process are enumerated with dl_iterate_phdr:        *)
(* ELF::enumerateSections under enumerateTypeMetadataSections               *)
(* (TestingInternals/Discovery.cpp) and sml_enumerateImages                 *)
(* (_ImageryInternals/Implementation+ELF.cpp).  An image is what the calls  *)
(* on it will give: whether dladdr finds it, how map() on its file ends     *)
(* ("ok", or the call that fails), the type of its string table's header,   *)
(* and its section headers.                                                 *)
(***************************************************************************)
MaxElfImages == 2

ElfImpls == {"ELF::enumerateSections", "sml_enumerateImages"}

MetadataSection == [name |-> "swift5_type_metadata", type |-> "SHT_PROGBITS"]

ElfSectionLists ==
  { << MetadataSection >>,
    << [name |-> ".text", type |-> "SHT_PROGBITS"], MetadataSection >>,
    << [name |-> "swift5_type_metadata", type |-> "SHT_NOBITS"] >> }

ElfImages ==
  [dladdr : {TRUE}, map : {"ok"}, strtabType : {"SHT_STRTAB"}, sections : ElfSectionLists]
  \cup [dladdr : {FALSE}, map : {"ok"}, strtabType : {"SHT_STRTAB"},
        sections : {<< MetadataSection >>}]
  \cup [dladdr : {TRUE}, map : {"open", "fstat", "check", "mmap"},
        strtabType : {"SHT_STRTAB"}, sections : {<< MetadataSection >>}]
  \cup [dladdr : {TRUE}, map : {"ok"}, strtabType : {"SHT_PROGBITS"},
        sections : {<< MetadataSection >>}]

CallbackReturn_stopsOnSkip(impl, called, stop) == IF called THEN 0 ELSE -1

\* What the callback given to dl_iterate_phdr returns: whether the image's
\* visitor was called, and the stop flag it left.
CallbackReturn(impl, called, stop) ==
  IF impl = "sml_enumerateImages" /\ called /\ stop THEN -1 ELSE 0

EnumIdle ==
  /\ nPc = "idle" /\ nImpl = "sml_enumerateImages" /\ nImages = << >>
  /\ nIdx = 0 /\ nSecIdx = 0 /\ nVisits = << >> /\ nCalls = << >>

EnumInit ==
  /\ nPc = "image"
  /\ nImpl \in ElfImpls
  /\ nImages \in SeqsUpTo(ElfImages, MaxElfImages) \ {<< >>}
  /\ nIdx = 0 /\ nSecIdx = 0 /\ nVisits = << >> /\ nCalls = << >>

\* The callback returns ret to dl_iterate_phdr, which goes on while it gets 0.
ElfReturn(ret) == nPc' = IF ret = 0 THEN "image" ELSE "done"

\* dl_iterate_phdr calls the callback for the next image, or is through.
ElfNextImage ==
  /\ nPc = "image"
  /\ IF nIdx < Len(nImages)
       THEN nIdx' = nIdx + 1 /\ nPc' = "dladdr"
       ELSE nPc' = "done" /\ UNCHANGED nIdx
  /\ UNCHANGED <<nImpl, nImages, nSecIdx, nVisits, nCalls>>
  /\ UNCHANGED <<ptrVars, mapVars, walkVars, findVars, coffVars, regVars, decVars, moreVars>>

\* dladdr on the image's program headers: Discovery.cpp 418-422,
\* Implementation+ELF.cpp 157-158.
ElfDladdr ==
  /\ nPc = "dladdr"
  /\ IF nImages[nIdx].dladdr
       THEN nPc' = IF nImpl = "sml_enumerateImages" THEN "body" ELSE "map"
       ELSE ElfReturn(CallbackReturn(nImpl, FALSE, FALSE))
  /\ UNCHANGED <<nImpl, nImages, nIdx, nSecIdx, nVisits, nCalls>>
  /\ UNCHANGED <<ptrVars, mapVars, walkVars, findVars, coffVars, regVars, decVars, moreVars>>

\* sml_enumerateImages: the visitor is called with the image.
ElfBody ==
  /\ nPc = "body"
  /\ nVisits' = Append(nVisits, nIdx)
  /\ \E stop \in BOOLEAN : ElfReturn(CallbackReturn(nImpl, TRUE, stop))
  /\ UNCHANGED <<nImpl, nImages, nIdx, nSecIdx, nCalls>>
  /\ UNCHANGED <<ptrVars, mapVars, walkVars, findVars, coffVars, regVars, decVars, moreVars>>

\* ELF::enumerateSections, Discovery.cpp 428-435: map the image's file.
ElfMap ==
  /\ nPc = "map"
  /\ IF nImages[nIdx].map = "ok"
       THEN nPc' = "strtab" /\ nCalls' = Append(nCalls, [call |-> "mmap", image |-> nIdx])
       ELSE ElfReturn(CallbackReturn(nImpl, FALSE, FALSE)) /\ UNCHANGED nCalls
  /\ UNCHANGED <<nImpl, nImages, nIdx, nSecIdx, nVisits>>
  /\ UNCHANGED <<ptrVars, mapVars, walkVars, findVars, coffVars, regVars, decVars, moreVars>>

\* ELF::enumerateSections, Discovery.cpp 438-443: the string table's header.
\* The return taken for another type is a plain return.
ElfStrtab ==
  /\ nPc = "strtab"
  /\ IF nImages[nIdx].strtabType = "SHT_STRTAB"
       THEN nPc' = "sections" /\ nSecIdx' = 0
       ELSE ElfReturn(CallbackReturn(nImpl, FALSE, FALSE)) /\ UNCHANGED nSecIdx
  /\ UNCHANGED <<nImpl, nImages, nIdx, nVisits, nCalls>>
  /\ UNCHANGED <<ptrVars, mapVars, walkVars, findVars, coffVars, regVars, decVars, moreVars>>

\* ELF::enumerateSections, Discovery.cpp 446-459, with the body
\* enumerateTypeMetadataSections gives it (467-471): one section header, or the
\* end of the loop and the callback's return.
ElfSections ==
  /\ nPc = "sections"
  /\ LET sections == nImages[nIdx].sections IN
     IF nSecIdx < Len(sections)
       THEN /\ nSecIdx' = nSecIdx + 1
            /\ nVisits' = IF /\ sections[nSecIdx + 1].type = "SHT_PROGBITS"
                             /\ sections[nSecIdx + 1].name = "swift5_type_metadata"
                            THEN Append(nVisits, nIdx) ELSE nVisits
            /\ UNCHANGED <<nPc, nCalls>>
       ELSE /\ nCalls' = Append(nCalls, [call |-> "munmap", image |-> nIdx])
            /\ ElfReturn(CallbackReturn(nImpl,
                       \E k \in 1 .. Len(nVisits) : nVisits[k] = nIdx, FALSE))
            /\ UNCHANGED <<nSecIdx, nVisits>>
  /\ UNCHANGED <<nImpl, nImages, nIdx>>
  /\ UNCHANGED <<ptrVars, mapVars, walkVars, findVars, coffVars, regVars, decVars, moreVars>>

(***************************************************************************)
(* One call of SWTTypeMetadataRecord::getContextDescriptor, on any record   *)
(* of the walk and on one of tag 3.                                         *)
(***************************************************************************)
DecIdle ==
  /\ dPc = "idle" /\ dThis = NULL
  /\ dRec = [raw |-> 0, inner |-> NULL, desc |-> DefaultDescriptor]
  /\ dResult = NullDescriptor

DecInit ==
  /\ dPc = "ready"
  /\ dThis \in RecordAddresses
  /\ dRec \in RecordPool \cup [raw : {3, 7}, inner : {NULL}, desc : {DefaultDescriptor}]
  /\ dResult = NullDescriptor

Decode ==
  /\ dPc = "ready"
  /\ dResult' = getContextDescriptor(dThis, dRec)
  /\ dPc' = "done"
  /\ UNCHANGED <<dThis, dRec>>
  /\ UNCHANGED <<ptrVars, mapVars, walkVars, findVars, coffVars, regVars, enumVars, moreVars>>

(***************************************************************************)
(* sml_findSection for Mach-O images                                        *)
(* (_ImageryInternals/Implementation+MachO.cpp).  The image is what         *)
(* getsectiondata gives for a segment name and a section name.              *)
(***************************************************************************)
MachONames ==
  { <<"T", ",", "s">>, <<"T", ",", "s", ",", "x">>, <<"T", "s">>, <<",", "s">>,
    <<"T", ",">>, << >> }

\* The segment and section names an image can have data for.
MachOKeys ==
  { <<<<"T">>, <<"s">>>>, <<<<"T">>, <<"s", ",", "x">>>>, <<<<"T", ",", "s">>, <<"x">>>>,
    <<<< >>, <<"s">>>> }

NoData == [start |-> NULL, size |-> 0]

\* Per key: no such section, a section with data, an empty section.
MachOImages ==
  [MachOKeys -> {NoData, [start |-> SectionStart(1), size |-> 16],
                 [start |-> SectionStart(1), size |-> 0]}]

strchr_last(str, c) ==
  IF \E i \in 1 .. Len(str) : str[i] = c
    THEN CHOOSE i \in 1 .. Len(str) :
           str[i] = c /\ \A j \in (i + 1) .. Len(str) : str[j] # c
    ELSE 0

\* std::strchr(str, c): the index of the first c, 0 for a null result.
strchr(str, c) ==
  IF \E i \in 1 .. Len(str) : str[i] = c
    THEN CHOOSE i \in 1 .. Len(str) : str[i] = c /\ \A j \in 1 .. (i - 1) : str[j] # c
    ELSE 0

\* getsectiondata(mh, segname, sectname, &size)
getsectiondata(image, segname, sectname) ==
  IF <<segname, sectname>> \in DOMAIN image THEN image[<<segname, sectname>>] ELSE NoData

MachOIdle ==
  /\ mPc = "idle" /\ mName = << >> /\ mImage = [k \in MachOKeys |-> NoData]
  /\ mQuery = << >> /\ mOut = NotSet /\ mReturn = "none"

MachOInit ==
  /\ mPc = "call" /\ mName \in MachONames /\ mImage \in MachOImages
  /\ mQuery = << >> /\ mOut = NotSet /\ mReturn = "none"

\* sml_findSection, lines 110-131.
MachOFind ==
  /\ mPc = "call"
  /\ LET comma == strchr(mName, ",") IN
     IF comma = 0
       THEN mReturn' = "false" /\ UNCHANGED <<mQuery, mOut>>
       ELSE LET segmentName == SubSeq(mName, 1, comma - 1)
                sectionName == SubSeq(mName, comma + 1, Len(mName))
                data == getsectiondata(mImage, segmentName, sectionName)
            IN /\ mQuery' = Append(mQuery, [segment |-> segmentName,
                                            section |-> sectionName])
               /\ IF data.start # NULL /\ data.size > 0
                    THEN /\ mOut' = [set |-> TRUE, start |-> data.start,
                                     size |-> data.size]
                         /\ mReturn' = "true"
                    ELSE mReturn' = "false" /\ UNCHANGED mOut
  /\ mPc' = "done"
  /\ UNCHANGED <<mName, mImage>>
  /\ UNCHANGED <<ptrVars, mapVars, walkVars, findVars, coffVars, regVars, enumVars,
                 decVars, onceVars, removeVars, winVars>>

(***************************************************************************)
(* The first calls of getSectionBounds, getMachHeaders or the Mach-O        *)
(* sml_enumerateImages, made by several threads at once: the static list    *)
(* pointer, the dispatch_once_t predicate and dispatch_once_f, which lets   *)
(* one caller run the block and holds the others until the block is over.   *)
(***************************************************************************)
MaxThreads == 3

Threads == 1 .. MaxThreads

dispatch_once_f_unguarded(once) == IF once = "done" THEN "skip" ELSE "run"

\* dispatch_once_f(&once, ...) as seen by a caller: it runs the block, waits
\* for the thread running it, or returns at once.
dispatch_once_f(once) ==
  CASE once = "0" -> "run"
    [] once = "running" -> "wait"
    [] OTHER -> "skip"

OnceIdle ==
  /\ oImpl = "getSectionBounds" /\ oPc = [t \in Threads |-> "idle"] /\ oOnce = "0"
  /\ oList = "null" /\ oAllocs = 0 /\ oHooks = [add |-> 0, remove |-> 0]
  /\ oReadNull = FALSE

OnceInit ==
  /\ oImpl \in RegImpls /\ oPc = [t \in Threads |-> "call"] /\ oOnce = "0"
  /\ oList = "null" /\ oAllocs = 0 /\ oHooks = [add |-> 0, remove |-> 0]
  /\ oReadNull = FALSE

\* Thread t reaches dispatch_once_f, or is let go by it when the block is over.
OnceEnter(t) ==
  /\ oPc[t] \in {"call", "wait"}
  /\ LET todo == dispatch_once_f(oOnce) IN
     /\ oPc[t] = "wait" => todo = "skip"
     /\ oPc' = [oPc EXCEPT ![t] = CASE todo = "run" -> "block"
                                    [] todo = "wait" -> "wait"
                                    [] OTHER -> "use"]
     /\ oOnce' = IF todo = "run" THEN "running" ELSE oOnce
  /\ UNCHANGED <<oImpl, oList, oAllocs, oHooks, oReadNull>>
  /\ UNCHANGED <<ptrVars, mapVars, walkVars, findVars, coffVars, regVars, enumVars,
                 decVars, machoVars, removeVars, winVars>>

\* The block: malloc and placement new of the list, then the registration of
\* the hooks (sml_enumerateImages registers a remove-image hook as well), after
\* which dispatch_once_f marks the predicate done.
OnceBlock(t) ==
  /\ \/ /\ oPc[t] = "block"
        /\ oList' = "list" /\ oAllocs' = oAllocs + 1
        /\ oPc' = [oPc EXCEPT ![t] = "hooks"]
        /\ UNCHANGED <<oHooks, oOnce>>
     \/ /\ oPc[t] = "hooks"
        /\ oHooks' = [add |-> oHooks.add + 1,
                      remove |-> oHooks.remove
                                   + (IF oImpl = "sml_enumerateImages" THEN 1 ELSE 0)]
        /\ oOnce' = "done"
        /\ oPc' = [oPc EXCEPT ![t] = "use"]
        /\ UNCHANGED <<oList, oAllocs>>
  /\ UNCHANGED <<oImpl, oReadNull>>
  /\ UNCHANGED <<ptrVars, mapVars, walkVars, findVars, coffVars, regVars, enumVars,
                 decVars, machoVars, removeVars, winVars>>

\* After dispatch_once_f: the thread takes the lock and reads through the list
\* pointer.
OnceUse(t) ==
  /\ oPc[t] = "use"
  /\ oReadNull' = (oReadNull \/ oList = "null")
  /\ oPc' = [oPc EXCEPT ![t] = "done"]
  /\ UNCHANGED <<oImpl, oOnce, oList, oAllocs, oHooks>>
  /\ UNCHANGED <<ptrVars, mapVars, walkVars, findVars, coffVars, regVars, enumVars,
                 decVars, machoVars, removeVars, winVars>>

(***************************************************************************)
(* The remove-image callback of the Mach-O sml_enumerateImages:             *)
(* machHeaders->erase(std::remove(begin, end, mhn)), the erase that takes   *)
(* one iterator.                                                            *)
(***************************************************************************)
\* The lists without repetition over the images dyld can have loaded.
HeaderLists ==
  { l \in SeqsUpTo(1 .. MaxLoads, MaxLoads) :
      \A i, j \in 1 .. Len(l) : i # j => l[i] # l[j] }

RemoveIdle ==
  vPc = "idle" /\ vList = << >> /\ vX = 0 /\ vResult = [fault |-> FALSE, list |-> << >>]

RemoveInit ==
  /\ vPc = "call" /\ vList \in HeaderLists /\ vX \in 1 .. MaxLoads
  /\ vResult = [fault |-> FALSE, list |-> vList]

\* The callback, lines 65-71, called by dyld for the image vX.
RemoveImage ==
  /\ vPc = "call"
  /\ vResult' \in eraseRemove(vList, vX)
  /\ vPc' = "done"
  /\ UNCHANGED <<vList, vX>>
  /\ UNCHANGED <<ptrVars, mapVars, walkVars, findVars, coffVars, regVars, enumVars,
                 decVars, machoVars, onceVars, winVars>>

(***************************************************************************)
(* enumerateTypeMetadataSections on Windows (Sources/_TestingInternals):    *)
(* EnumProcessModules, then findSection on every handle, then the visitor   *)
(* on every section found.                                                  *)
(***************************************************************************)
\* hModules.size(): std::array<HMODULE, 1024>, scaled down.
hModulesSize == 2

\* The modules a process has at most; more than the array holds.
MaxModules == 3

\* What findSection(hModule, ".sw5tymd") finds in a module: a section or
\* std::nullopt.
WinModules == [hasSection : BOOLEAN]

hModuleCount_needed(size, needed) == needed

\* Line 383: std::min(hModules.size(), byteCountNeeded / sizeof(HMODULE)).
hModuleCount(size, needed) == Min(size, needed)

WinIdle ==
  /\ uPc = "idle" /\ uModules = << >> /\ uEnum = [ok |-> FALSE, count |-> 0]
  /\ uIdx = 0 /\ uBounds = << >> /\ uTrace = << >>

WinInit ==
  /\ uPc = "modules"
  /\ uModules \in SeqsUpTo(WinModules, MaxModules)
  /\ uEnum \in [ok : BOOLEAN, count : {Len(uModules)}]
  /\ uIdx = 0 /\ uBounds = << >> /\ uTrace = << >>

\* Lines 379-383: EnumProcessModules; a failure returns.
WinEnumProcessModules ==
  /\ uPc = "modules"
  /\ uPc' = IF uEnum.ok THEN "find" ELSE "done"
  /\ UNCHANGED <<uModules, uEnum, uIdx, uBounds, uTrace>>
  /\ UNCHANGED <<ptrVars, mapVars, walkVars, findVars, coffVars, regVars, enumVars,
                 decVars, machoVars, onceVars, removeVars>>

\* Lines 392-398: one turn of the first loop, or its end.
WinFindSection ==
  /\ uPc = "find"
  /\ IF uIdx < hModuleCount(hModulesSize, uEnum.count)
       THEN /\ uIdx' = uIdx + 1
            /\ uTrace' = Append(uTrace, [call |-> "findSection", module |-> uIdx + 1])
            /\ uBounds' = IF uModules[uIdx + 1].hasSection
                            THEN Append(uBounds, uIdx + 1) ELSE uBounds
            /\ uPc' = uPc
       ELSE /\ uIdx' = 0 /\ uPc' = "visit"
            /\ UNCHANGED <<uBounds, uTrace>>
  /\ UNCHANGED <<uModules, uEnum>>
  /\ UNCHANGED <<ptrVars, mapVars, walkVars, findVars, coffVars, regVars, enumVars,
                 decVars, machoVars, onceVars, removeVars>>

\* Lines 405-412: one turn of the second loop, the body setting stop or not,
\* or its end.
WinBody ==
  /\ uPc = "visit"
  /\ IF uIdx < Len(uBounds)
       THEN /\ uIdx' = uIdx + 1
            /\ uTrace' = Append(uTrace, [call |-> "body", module |-> uBounds[uIdx + 1]])
            /\ \E stop \in BOOLEAN : uPc' = IF stop THEN "done" ELSE uPc
       ELSE /\ uPc' = "done"
            /\ UNCHANGED <<uIdx, uTrace>>
  /\ UNCHANGED <<uModules, uEnum, uBounds>>
  /\ UNCHANGED <<ptrVars, mapVars, walkVars, findVars, coffVars, regVars, enumVars,
                 decVars, machoVars, onceVars, removeVars>>

\* The parts added last at rest.
MoreIdle == MachOIdle /\ OnceIdle /\ RemoveIdle /\ WinIdle


\* Every part below the walk at rest.
ImageIdle == FindIdle /\ CoffIdle /\ RegIdle /\ EnumIdle /\ DecIdle /\ MoreIdle

(***************************************************************************)
(* The specifications.                                                     *)
(***************************************************************************)
InitPtr == PtrInit /\ MapIdle /\ WalkIdle /\ ImageIdle
NextPtr == Resolve
SpecPtr == InitPtr /\ [][NextPtr]_vars

InitWalk == WalkInit /\ PtrIdle /\ MapIdle /\ ImageIdle
NextWalk ==
  \/ NextImage
  \/ WalkRecord
  \/ OverrunFault
  \/ BodyReturns
  \/ NextImage_old
  \/ WalkRecord_old
  \/ BodyReturns_old
  \/ Finish
SpecWalk == InitWalk /\ [][NextWalk]_vars

InitMap == MapInit /\ PtrIdle /\ WalkIdle /\ ImageIdle
NextMap == MapOpen \/ MapFstat \/ MapCheck \/ MapMmap
SpecMap == InitMap /\ [][NextMap]_vars

InitFind == FindInit /\ PtrIdle /\ MapIdle /\ WalkIdle
            /\ CoffIdle /\ RegIdle /\ EnumIdle /\ DecIdle /\ MoreIdle

NextFind == FindHeaders \/ FindMap \/ FindStrtab \/ FindSection

SpecFind == InitFind /\ [][NextFind]_vars

InitCoff == CoffInit /\ PtrIdle /\ MapIdle /\ WalkIdle
            /\ FindIdle /\ RegIdle /\ EnumIdle /\ DecIdle /\ MoreIdle

NextCoff == CoffDos \/ CoffNt \/ CoffSection

SpecCoff == InitCoff /\ [][NextCoff]_vars

InitReg == RegInit /\ PtrIdle /\ MapIdle /\ WalkIdle
           /\ FindIdle /\ CoffIdle /\ EnumIdle /\ DecIdle /\ MoreIdle

NextReg ==
  \/ Once \/ EnumCall \/ EnumLock \/ EnumCopy \/ EnumUnlock \/ EnumLoop \/ EnumDladdr
  \/ VisitorReturns \/ EnumEnd
  \/ \E who \in {"E", "L"} : Load(who) \/ AddLock(who) \/ AddPush(who)
  \/ \E who \in {"E", "L"} : Unload(who) \/ RemoveLock(who) \/ RemoveErase(who)

SpecReg == InitReg /\ [][NextReg]_vars

InitEnum == EnumInit /\ PtrIdle /\ MapIdle /\ WalkIdle
            /\ FindIdle /\ CoffIdle /\ RegIdle /\ DecIdle /\ MoreIdle

NextEnum == ElfNextImage \/ ElfDladdr \/ ElfBody \/ ElfMap \/ ElfStrtab \/ ElfSections

SpecEnum == InitEnum /\ [][NextEnum]_vars

InitDecode == DecInit /\ PtrIdle /\ MapIdle /\ WalkIdle
              /\ FindIdle /\ CoffIdle /\ RegIdle /\ EnumIdle /\ MoreIdle

NextDecode == Decode

SpecDecode == InitDecode /\ [][NextDecode]_vars

InitMachO == MachOInit /\ PtrIdle /\ MapIdle /\ WalkIdle /\ FindIdle /\ CoffIdle /\ RegIdle
             /\ EnumIdle /\ DecIdle /\ OnceIdle /\ RemoveIdle /\ WinIdle

NextMachO == MachOFind

SpecMachO == InitMachO /\ [][NextMachO]_vars

InitOnce == OnceInit /\ PtrIdle /\ MapIdle /\ WalkIdle /\ FindIdle /\ CoffIdle /\ RegIdle
            /\ EnumIdle /\ DecIdle /\ MachOIdle /\ RemoveIdle /\ WinIdle

NextOnce == \E t \in Threads : OnceEnter(t) \/ OnceBlock(t) \/ OnceUse(t)

SpecOnce == InitOnce /\ [][NextOnce]_vars

InitRemove == RemoveInit /\ PtrIdle /\ MapIdle /\ WalkIdle /\ FindIdle /\ CoffIdle
              /\ RegIdle /\ EnumIdle /\ DecIdle /\ MachOIdle /\ OnceIdle /\ WinIdle

NextRemove == RemoveImage

SpecRemove == InitRemove /\ [][NextRemove]_vars

InitWin == WinInit /\ PtrIdle /\ MapIdle /\ WalkIdle /\ FindIdle /\ CoffIdle
           /\ RegIdle /\ EnumIdle /\ DecIdle /\ MachOIdle /\ OnceIdle /\ RemoveIdle

NextWin == WinEnumProcessModules \/ WinFindSection \/ WinBody

SpecWin == InitWin /\ [][NextWin]_vars

(***************************************************************************)
(* Properties of the enumeration (SpecWalk).                               *)
(***************************************************************************)

\* C1: in _TestingInternals, once the visitor has set *stop while it was
\* invoked for a record, it is not invoked for any later record of the same
\* section: a visitor call for a record of the table never happens with
\* *stop already set.
C1_NoVisitAfterStopInSection ==
  (wImpl = NewImpl /\ wLast.called /\ wLast.inTable) => ~wLast.late

\* C2: in _TestingInternals, once the visitor has set *stop, the per-image
\* loop ends after the section in which it was set: the enumeration never
\* moves on to a later image and no record of a later section is passed to
\* the visitor.
C2_StopEndsImageLoop ==
  (wImpl = NewImpl /\ wStopImg # 0) =>
    /\ wIdx = wStopImg
    /\ wLastImg = wStopImg
    /\ (wPc = "sections" => wIdx = wImages)

\* C2 happens: the visitor set stop in a section that is not the last one,
\* and the enumeration ended there.
C2_Witness ==
  /\ wImpl = NewImpl
  /\ wStopImg # 0
  /\ wStopImg < wImages
  /\ wPc = "done"

\* C3: in TestingInternals, a stop request made while a record of one
\* section is visited ends the whole enumeration: the enumeration never
\* moves on to a later image.
C3_StopEndsEnumeration_old ==
  (wImpl = OldImpl /\ wStopImg # 0) => (wIdx = wStopImg /\ wLastImg = wStopImg)

\* C4: the record walk of _TestingInternals examines exactly
\* floor(size / s) records, never reads a record at or beyond
\* start + floor(size / s) * s, and terminates: the iterator never passes
\* the end of the whole records and the walk never faults.
C4_RecordCountBound ==
  wImpl = NewImpl =>
    /\ wPc # "crashed"
    /\ (wPc = "records" => wIt <= wSection.start
                                   + (wSection.size \div RecordStride) * RecordStride)

\* C5: a record whose descriptor has bit 0x80 of its flags word set is never
\* passed to the visitor, whatever its name, tag or access function, and
\* its access function is never invoked.
C5_GenericExcluded ==
  (wLast.resolved /\ (wLast.flags \div 128) % 2 = 1) =>
    (~wLast.called /\ ~wLast.accessed)

\* C5 happens: a record of the table whose descriptor is generic and has
\* everything else the visitor needs (a matching name, an access function
\* that returns a value) was examined.
C5_Witness ==
  /\ wLast.resolved
  /\ (wLast.flags \div 128) % 2 = 1
  /\ wLast.eligible
  /\ wLast.inTable

\* C8: while the visitor never sets stop, the values passed to it for one
\* section are, in table order and each once, the values of exactly the
\* qualifying records of the section's table.
C8_VisitedAreTheQualifying ==
  (wPc = "records" /\ wStopImg = 0) => wVisited = wExpected

(***************************************************************************)
(* Properties of SWTRelativePointer (SpecPtr).                             *)
(***************************************************************************)

\* C6 as stated: for mask 0 and every d other than 0, get() returns exactly
\* (P + d) modulo 2^W.
C6_RoundTrip_AsStated ==
  (ptrPc = "done" /\ ptrMask = 0 /\ ptrOffset # 0) =>
    ptrResult = (ptrThis + ptrOffset) % Pow2(ptrBuild.bits)

\* C6 amended: for mask 0 and every d other than 0, get() returns
\* (P + d) modulo 2^W, d sign-extended; where pointers are authenticated and
\* T is a function type it returns that address signed, which is the same
\* address once the signature is stripped.
C6_RoundTrip ==
  (ptrPc = "done" /\ ptrMask = 0 /\ ptrOffset # 0) =>
    LET target == (ptrThis + ptrOffset) % Pow2(ptrBuild.bits) IN
    IF ptrBuild.ptrauth /\ ptrIsFn /\ target # NULL
      THEN ptrauth_strip(ptrResult) = ptrauth_strip(target)
      ELSE ptrResult = target

\* C6 happens: a negative d against a P above the range of the offset gave
\* P - |d|.
C6_Witness ==
  /\ ptrPc = "done"
  /\ ptrMask = 0
  /\ ptrOffset < 0
  /\ ptrBuild.bits = PtrBitsLP64
  /\ ptrThis >= Pow2(OffsetBits)
  /\ ptrResult = ptrThis + ptrOffset

C9_FailsClosed ==
  mapFileOK =>
    /\ procMaps.openable
    /\ procMaps.errorAt = 0
    /\ \A i \in 1 .. Len(procMaps.lines) :
         procMaps.lines[i].name = mapPath =>
           /\ procMaps.lines[i].dev.major * 256 + procMaps.lines[i].dev.minor = mapSt.dev
           /\ procMaps.lines[i].ino = mapSt.ino

\* C10: in both versions of map the steps run in the order open, fstat,
\* consistency check, mmap; mmap is reached only if the check returned true,
\* and a path of which a live mapping reports another device or inode is
\* never mapped.
C10_CheckedBeforeMapped ==
  (\E k \in 1 .. Len(mapTrace) : mapTrace[k] = "mmap") =>
    /\ Len(mapTrace) >= 4
    /\ SubSeq(mapTrace, 1, 4) = <<"open", "fstat", "isFileIDConsistent", "mmap">>
    /\ mapFileOK
    /\ \A i \in 1 .. Len(procMaps.lines) :
         procMaps.lines[i].name = mapPath =>
           /\ procMaps.lines[i].dev.major * 256 + procMaps.lines[i].dev.minor = mapSt.dev
           /\ procMaps.lines[i].ino = mapSt.ino

(***************************************************************************)
(* Properties of the ELF sml_findSection (SpecFind).                       *)
(***************************************************************************)

\* C11: the ELF sml_findSection returns false when no section header's name
\* equals sectionName and when the mapped string table header is not of type
\* SHT_STRTAB; it returns true only when *outSection has been set.
C11_FoundOnlyWhenSet ==
  fPc = "done" =>
    /\ fReturn = "true" => fOut.set
    /\ ( \/ fFile.strtabType # "SHT_STRTAB"
         \/ \A i \in 1 .. Len(fFile.sections) : fFile.sections[i].sh_name # fName )
         => fReturn = "false"

(***************************************************************************)
(* Properties of the PE/COFF section lookup (SpecCoff).                    *)
(***************************************************************************)

\* C12: the PE/COFF lookup, in sml_findSection and in findSection alike,
\* reports the section as not found, and reads no section header, whenever the
\* DOS header magic is not IMAGE_DOS_SIGNATURE, e_lfanew is zero or negative,
\* or the NT header signature is not IMAGE_NT_SIGNATURE.
C12_InvalidHeaderNotFound ==
  ( /\ cPc # "idle"
    /\ \/ cModule.e_magic # IMAGE_DOS_SIGNATURE
       \/ cModule.e_lfanew <= 0
       \/ cModule.Signature # IMAGE_NT_SIGNATURE )
    => /\ cWalked = 0
       /\ ~cResult.found

(***************************************************************************)
(* Properties of the image registry (SpecReg).                             *)
(***************************************************************************)
IsPrefix(a, b) == Len(a) <= Len(b) /\ SubSeq(b, 1, Len(a)) = a

CopyImpls == {"getSectionBounds", "getMachHeaders"}

\* C13: in getSectionBounds and getMachHeaders the registry lock is held only
\* while the list is copied, never while the visitor runs; an add-image
\* callback fired from inside the visitor finds the lock free and takes it.
C13_LockNotHeldInVisitor ==
  rImpl \in CopyImpls =>
    /\ rLock = "enumeration" => ePc \in {"copy", "unlock"}
    /\ ePc \in {"visitor", "add lock", "add push"} => rLock # "enumeration"
    /\ ePc = "add lock" => rLock = "free"
    /\ ePc = "add push" => rLock = "callback E"

\* C13 happens: the visitor has loaded an image and the callback, on the
\* visitor's thread, holds the lock.
C13_Witness ==
  /\ rImpl \in CopyImpls
  /\ ePc = "add push"
  /\ rLock = "callback E"
  /\ eVisited # << >>

\* C14: in the Mach-O sml_enumerateImages the lock is held neither while body
\* runs nor while sml_getImageContainingAddress (dladdr) is called.
C14_ReadLockNotHeldInBody ==
  (rImpl = "sml_enumerateImages" /\ ePc \in {"dladdr", "visitor", "add lock"})
    => rLock # "enumeration"

\* C15: the snapshot of getSectionBounds and getMachHeaders is the registry at
\* one point in time: every image appended before it is in it, the call visits
\* images of its snapshot only, in order, and all of them unless stopped, and a
\* later snapshot extends the earlier one, so that an image appended after a
\* call's snapshot is visited by the next call and not by this one.
C15_SnapshotPointInTime ==
  rImpl \in CopyImpls =>
    /\ ePc = "unlock" => eSnap = rList
    /\ ePc \notin {"start", "lock", "copy"} =>
         /\ IsPrefix(eSnap, rList)
         /\ IsPrefix(ePrev, eSnap)
         /\ IsPrefix(eVisited, eSnap)
    /\ (ePc \in {"end", "idle"} /\ ~eStop) => eVisited = eSnap

\* C15 happens: the second call has visited an image that the visitor itself
\* loaded during the first call, after the first call's snapshot.
C15_Witness ==
  /\ rImpl \in CopyImpls
  /\ eCalls = 2 /\ ePc = "idle"
  /\ \E i \in 1 .. Len(eVisited) : i > Len(ePrev) /\ eVisited[i].by = "E"

(***************************************************************************)
(* Properties of the enumeration of ELF images (SpecEnum).                 *)
(***************************************************************************)

\* The image's sections can be located: dladdr finds the image and, where the
\* enumeration itself looks for the sections, its file is mapped and its string
\* table has the right type.
Locatable(impl, image) ==
  /\ image.dladdr
  /\ impl = "ELF::enumerateSections" =>
       image.map = "ok" /\ image.strtabType = "SHT_STRTAB"

\* The image's sections the visitor is meant for.
Matching(impl, image) ==
  IF impl = "sml_enumerateImages" THEN 1
  ELSE Cardinality({ k \in 1 .. Len(image.sections) : image.sections[k] = MetadataSection })

\* C16: an image whose section cannot be located (dladdr fails; the file cannot
\* be opened, stat'ed or mapped; the consistency check fails; the string table
\* header has the wrong type) contributes no visitor invocation and does not
\* end the enumeration: the enumeration ends before the last image only when a
\* visitor has set stop, and having reached the end it has invoked the visitor
\* for exactly the sections of the locatable images.
C16_UnlocatableSkipped ==
  /\ \A k \in 1 .. Len(nVisits) : Locatable(nImpl, nImages[nVisits[k]])
  /\ nPc = "done" =>
       \/ /\ nIdx = Len(nImages)
          /\ \A i \in 1 .. Len(nImages) :
               Cardinality({ k \in 1 .. Len(nVisits) : nVisits[k] = i })
                 = (IF Locatable(nImpl, nImages[i]) THEN Matching(nImpl, nImages[i]) ELSE 0)
       \/ /\ nImpl = "sml_enumerateImages"
          /\ nVisits # << >>
          /\ nVisits[Len(nVisits)] = nIdx

\* C16 happens: the enumeration is through, an image that could not be located
\* was passed over and an image after it was visited.
C16_Witness ==
  /\ nPc = "done"
  /\ \E i \in 1 .. Len(nImages) :
       /\ ~Locatable(nImpl, nImages[i])
       /\ \E k \in 1 .. Len(nVisits) : nVisits[k] > i

(***************************************************************************)
(* Properties of getContextDescriptor (SpecDecode) and of the access       *)
(* function (SpecWalk).                                                    *)
(***************************************************************************)

\* The address the record's relative pointer resolves to, said without the
\* code: absent for a zero displacement.
ResolvedAddress(this, rec) ==
  IF Displacement(rec) = 0 THEN NULL ELSE this + Displacement(rec)

\* C17: getContextDescriptor decodes by the tag in the low two bits: tag 0
\* returns the resolved address itself; tag 1 returns the pointer stored at the
\* resolved address, with exactly one load, or no descriptor when the resolved
\* address is absent; tags 2 and 3 return no descriptor and load nothing.
C17_DecodedByTag ==
  dPc = "done" =>
    CASE Tag(dRec) = 0 ->
           dResult.addr = ResolvedAddress(dThis, dRec) /\ dResult.loads = 0
      [] Tag(dRec) = 1 ->
           IF ResolvedAddress(dThis, dRec) # NULL
             THEN dResult.addr = dRec.inner /\ dResult.loads = 1
             ELSE dResult.addr = NULL /\ dResult.loads = 0
      [] OTHER -> dResult.addr = NULL /\ dResult.loads = 0

\* C17 happens: an indirect record was decoded to the pointer stored where it
\* leads.
C17_Witness ==
  /\ dPc = "done"
  /\ Tag(dRec) = 1
  /\ ResolvedAddress(dThis, dRec) # NULL
  /\ dResult.addr = InnerAddress
  /\ dResult.loads = 1

\* C18: the metadata access function of a record is invoked only after the
\* record's descriptor was resolved, found non-generic and its name accepted;
\* never for a record that is skipped; and at most once per record: one
\* examination invokes it at most once, and every examination moves the
\* iterator one record forward.
C18_AccessOnlyWhenAccepted ==
  /\ [](/\ wLast.accesses <= 1
        /\ wLast.accessed <=> wLast.accesses = 1
        /\ wLast.accessed =>
             /\ wLast.resolved
             /\ ~GenericFlagSet(wLast.flags)
             /\ wLast.named)
  /\ [][(wLast' # wLast /\ wLast' # NoLast) => wIt' = wIt + RecordStride]_vars

\* C18 happens: the access function of an accepted record was invoked once
\* and returned null, so that the visitor was not called.
C18_Witness ==
  /\ wLast.accessed /\ wLast.accesses = 1
  /\ wLast.resolved /\ wLast.named /\ ~GenericFlagSet(wLast.flags)
  /\ ~wLast.called

(***************************************************************************)
(* Release of the descriptor and of the mapping (SpecMap, SpecFind).       *)
(***************************************************************************)
Count(seq, x) == Cardinality({ k \in 1 .. Len(seq) : seq[k] = x })

\* C19: in both versions of map the descriptor of a successful open is closed
\* exactly once before map returns, on every return path, and never before
\* the last call that uses it; when open failed, close is not called.
C19_ClosedExactlyOnce ==
  /\ mapPc # "done" => Count(mapTrace, "close") = 0
  /\ mapPc = "done" =>
       IF mapTrace = <<"open">>
         THEN mapResult = NoResult
         ELSE /\ Count(mapTrace, "close") = 1
              /\ mapTrace[Len(mapTrace)] = "close"

\* C19 happens: mmap failed and map returned with the descriptor closed.
C19_Witness ==
  /\ mapPc = "done"
  /\ mapResult = NoResult
  /\ Count(mapTrace, "mmap") = 1
  /\ Count(mapTrace, "close") = 1

\* C20: in the ELF sml_findSection a region that map() returned is unmapped
\* exactly once, with the size map() reported, as the call returns, whether a
\* section was found, none matched or the string table had the wrong type;
\* munmap is not called when map() failed or was not reached.
C20_UnmappedExactlyOnce ==
  LET unmaps == SelectSeq(fCalls, LAMBDA c : c.call = "munmap") IN
  /\ fPc # "done" => unmaps = << >>
  /\ fPc = "done" =>
       IF fMapped # NotMapped
         THEN /\ unmaps = << [call |-> "munmap", addr |-> fMapped.addr,
                              size |-> fMapped.size] >>
              /\ fCalls[Len(fCalls)].call = "munmap"
         ELSE fCalls = << >>

\* C20 happens: the string table had the wrong type and the call returned
\* with the region unmapped.
C20_Witness ==
  /\ fPc = "done"
  /\ fFile.strtabType # "SHT_STRTAB"
  /\ fMapped # NotMapped
  /\ Len(fCalls) = 2
  /\ fCalls[2] = [call |-> "munmap", addr |-> Mapping, size |-> fFile.size]

\* C21: in ELF::enumerateSections, whenever the function has returned for an
\* image, every region a successful map() returned for it has been unmapped
\* exactly once: the mmap and munmap calls of each image are equal in number,
\* on the return taken for a string table of the wrong type too.
C21_UnmappedOnEveryExit ==
  (nImpl = "ELF::enumerateSections" /\ nPc \in {"image", "done"})
    => \A i \in 1 .. nIdx :
         Count(nCalls, [call |-> "munmap", image |-> i])
           = Count(nCalls, [call |-> "mmap", image |-> i])

\* C22: when the ELF sml_findSection finds a match, outSection.start is the
\* loaded image base plus a header's sh_offset and outSection.size that
\* header's sh_size, the start is not an address inside the mapped copy, and
\* the copy is already unmapped when the call returns; when the headers were
\* read inside the mapped copy, the header is the first one in header-table
\* order whose name equals sectionName.
C22_FirstMatchInLoadedImage ==
  (fPc = "done" /\ fOut.set) =>
    /\ fReturn = "true"
    /\ \E shdr \in SectionHeaders :
         /\ shdr.sh_name = fName
         /\ fOut.start = ImageAddress(1) + shdr.sh_offset
         /\ fOut.size = shdr.sh_size
    /\ ~(fMapped.addr <= fOut.start /\ fOut.start < fMapped.addr + fMapped.size)
    /\ fCalls[Len(fCalls)] = [call |-> "munmap", addr |-> fMapped.addr,
                              size |-> fMapped.size]
    /\ ~fOOB =>
         \E i \in 1 .. Len(fFile.sections) :
           /\ fFile.sections[i].sh_name = fName
           /\ \A j \in 1 .. (i - 1) : fFile.sections[j].sh_name # fName
           /\ fOut.start = ImageAddress(1) + fFile.sections[i].sh_offset
           /\ fOut.size = fFile.sections[i].sh_size

\* C22 happens: two headers carry the name asked for, with different sizes,
\* and the call returned the first.
C22_Witness ==
  /\ fPc = "done" /\ fOut.set /\ ~fOOB
  /\ Len(fFile.sections) = 2
  /\ fFile.sections[1].sh_name = fName /\ fFile.sections[2].sh_name = fName
  /\ fFile.sections[1].sh_size # fFile.sections[2].sh_size
  /\ fOut.size = fFile.sections[1].sh_size

\* C23: the ELF sml_findSection never reads outside the mapped copy: no
\* section header is read beyond the mapped length, and when the mapped file's
\* header fields place a section header beyond it the call returns not found.
C23_ReadsInsideMappedCopy ==
  /\ ~fOOB
  /\ fPc # "fault"
  /\ ( /\ fPc = "done" /\ fMapped # NotMapped
       /\ \E i \in 0 .. Len(fFile.sections) : ~HeaderMapped(fFile, i) )
       => (fReturn = "false" /\ ~fOut.set)

(***************************************************************************)
(* Properties of the Mach-O sml_findSection (SpecMachO).                    *)
(***************************************************************************)

\* C24: the Mach-O sml_findSection splits sectionName at its first comma into
\* the segment name before it and the section name after it, commas included;
\* a name without a comma returns false and the image is not queried; the call
\* returns true and sets *outSection only when the lookup gives a non-null
\* start and a size above 0, and leaves *outSection as it was otherwise.
C24_SplitAtFirstComma ==
  mPc = "done" =>
    LET commas == { i \in 1 .. Len(mName) : mName[i] = "," } IN
    IF commas = {}
      THEN mQuery = << >> /\ mReturn = "false" /\ mOut = NotSet
      ELSE LET first == CHOOSE i \in commas : \A j \in commas : i <= j
               segment == [i \in 1 .. (first - 1) |-> mName[i]]
               section == [i \in 1 .. (Len(mName) - first) |-> mName[first + i]]
               data == getsectiondata(mImage, segment, section)
           IN /\ mQuery = << [segment |-> segment, section |-> section] >>
              /\ IF data.start # NULL /\ data.size > 0
                   THEN /\ mReturn = "true"
                        /\ mOut = [set |-> TRUE, start |-> data.start, size |-> data.size]
                   ELSE mReturn = "false" /\ mOut = NotSet

\* C24 happens: a name with two commas was looked up as the segment before the
\* first and the section after it, and the section was found.
C24_Witness ==
  /\ mPc = "done"
  /\ mName = <<"T", ",", "s", ",", "x">>
  /\ mQuery = << [segment |-> <<"T">>, section |-> <<"s", ",", "x">>] >>
  /\ mReturn = "true" /\ mOut.set

\* C25: the PE/COFF lookup treats long section names as not found: a request
\* whose sectionName is longer than IMAGE_SIZEOF_SHORT_NAME characters never
\* returns a section, in sml_findSection and in findSection alike.
C25_LongNameNotFound ==
  (cPc = "done" /\ Len(cName) > IMAGE_SIZEOF_SHORT_NAME) => ~cResult.found

(***************************************************************************)
(* Properties of the registry's initialisation (SpecOnce).                  *)
(***************************************************************************)

\* C26: the registry is initialised exactly once however many threads make
\* their first call at the same time: the list is allocated once, each loader
\* hook is registered once, no thread reads the list pointer before it has been
\* set, and a thread that is past dispatch_once_f finds the list allocated and
\* the hooks of its registry registered.
C26_InitialisedExactlyOnce ==
  /\ oAllocs <= 1
  /\ oHooks.add <= 1 /\ oHooks.remove <= 1
  /\ ~oReadNull
  /\ (\E t \in Threads : oPc[t] \in {"use", "done"}) =>
       /\ oAllocs = 1
       /\ oList = "list"
       /\ oHooks = [add |-> 1,
                    remove |-> IF oImpl = "sml_enumerateImages" THEN 1 ELSE 0]

\* C26 happens: a thread is held in dispatch_once_f while another thread is in
\* the block, the list allocated and the hooks not yet registered.
C26_Witness ==
  \E t, u \in Threads :
    oPc[t] = "wait" /\ oPc[u] = "hooks" /\ oAllocs = 1 /\ oHooks.add = 0

(***************************************************************************)
(* Properties of the registry's lock (SpecReg).                             *)
(***************************************************************************)

\* C27: every access to the registry's list after initialisation is made with
\* the lock held by the accessor, and no append or erase of a callback overlaps
\* another read or mutation: the copy is taken and the loop of
\* sml_enumerateImages over the list itself runs with the lock held by the
\* enumeration, and a callback appends or erases with the lock held by that
\* callback alone.
C27_ListAccessUnderLock ==
  /\ ePc = "copy" => rLock = "enumeration"
  /\ ( /\ rImpl = "sml_enumerateImages"
       /\ ePc \in {"loop", "dladdr", "visitor", "end", "add lock", "remove lock"} )
       => rLock = "enumeration"
  /\ ePc \in {"add push", "remove erase"} => rLock = "callback E"
  /\ lPc \in {"add push", "remove erase"} => rLock = "callback L"

\* C27 happens: the remove-image callback on the loader thread waits for the
\* lock while sml_enumerateImages is inside its loop over the list.
C27_Witness ==
  /\ rImpl = "sml_enumerateImages"
  /\ lPc = "remove lock"
  /\ ePc = "dladdr"
  /\ rLock = "enumeration"

\* C28: the Mach-O sml_enumerateImages is deadlock-free against the loader: no
\* state is reached in which a callback that dyld runs, the loader's lock held,
\* on the enumerating thread (its body loaded or unloaded an image) waits for
\* the registry lock while the enumeration it interrupted holds that lock, so
\* that neither can complete.
C28_NoDeadlockWithLoader ==
  ~( /\ rImpl = "sml_enumerateImages"
     /\ rLock = "enumeration"
     /\ ePc \in {"add lock", "remove lock"}
     /\ eAdd # 0 )

(***************************************************************************)
(* Properties of the remove-image callback (SpecRemove).                    *)
(***************************************************************************)

\* C29: after the remove-image callback of the Mach-O registry has run for
\* image X, the list has no entry equal to X and every other entry is kept in
\* its order; when X was not in the list the list is as it was.
C29_ErasesImageOnly ==
  vPc = "done" =>
    /\ ~vResult.fault
    /\ vResult.list = SelectSeq(vList, LAMBDA e : e # vX)

(***************************************************************************)
(* Properties of enumerateTypeMetadataSections on Windows (SpecWin).        *)
(***************************************************************************)

\* C30: on Windows enumerateTypeMetadataSections is two-phase: findSection is
\* called on every module handle of the EnumProcessModules result, the smaller
\* of the array's size and the number of modules reported, before the first
\* call of the visitor; no module is read after the visitor has run; and a
\* failing EnumProcessModules gives no call of the visitor.
C30_TwoPhase ==
  LET handles == IF uEnum.count < hModulesSize THEN uEnum.count ELSE hModulesSize
      finds == { k \in 1 .. Len(uTrace) : uTrace[k].call = "findSection" }
      bodies == { k \in 1 .. Len(uTrace) : uTrace[k].call = "body" }
  IN /\ \A i \in finds, j \in bodies : i < j
     /\ Cardinality(finds) <= handles
     /\ bodies # {} =>
          /\ Cardinality(finds) = handles
          /\ \A k \in 1 .. handles : uTrace[k] = [call |-> "findSection", module |-> k]
     /\ ~uEnum.ok => uTrace = << >>

\* C30 happens: the process has more modules than the array holds, findSection
\* was called on the handles the array holds, and then the visitor twice.
C30_Witness ==
  /\ uPc = "done"
  /\ uEnum.count > hModulesSize
  /\ Len(uTrace) = hModulesSize + 2
  /\ uTrace[hModulesSize].call = "findSection"
  /\ uTrace[hModulesSize + 1].call = "body"
  /\ uTrace[hModulesSize + 2].call = "body"

====
